---------------------------- MODULE Spec2Model ----------------------------
(***************************************************************************)
(* Queueflow: task registry and worker dispatch engine.                    *)
(*                                                                         *)
(* The model follows src/src/task.ts (Task, ScheduledTask),                *)
(* src/src/worker.ts (GlobalWorker) and the configuration module that      *)
(* worker.ts imports (getSharedRedisConnection, createRedisConnection,     *)
(* configure: src/unnamed/part_000, lines 49-260).  The broker (BullMQ     *)
(* Queue / Worker objects over Redis) is modelled at the call sites.       *)
(*                                                                         *)
(* JavaScript runs one callback at a time: every action below is one       *)
(* synchronous run of code between two awaits.                             *)
(***************************************************************************)
EXTENDS Integers, Sequences, FiniteSets, TLC

(***************************************************************************)
(* Strings are sequences of characters; an optional value (undefined or a  *)
(* value) is a sequence of length 0 or 1.                                  *)
(***************************************************************************)
Undefined == <<>>

Some(v) == <<v>>

IsDefined(o) == Len(o) > 0

Val(o) == o[1]

\* JavaScript truthiness of an optional string: undefined and "" are falsy.
Truthy(o) == IsDefined(o) /\ Len(Val(o)) > 0

Dot == "."

\* The default of globalConfig.defaultQueue: the string "default".
DefaultQueueName == <<"d", "e", "f", "a", "u", "l", "t">>

\* id.includes(".")
Includes(s, c) == \E i \in 1..Len(s) : s[i] = c

\* id.split(".")[0]: the characters before the first ".", the whole string
\* when it has none.
SplitFirst(s) ==
  IF Includes(s, Dot)
    THEN SubSeq(s, 1, (CHOOSE i \in 1..Len(s) :
                          /\ s[i] = Dot
                          /\ \A j \in 1..(i - 1) : s[j] # Dot) - 1)
    ELSE s

\* config.queue || config.id.split(".")[0] || getConfig().defaultQueue!
\* queueOpt and defaultQueue are optional strings; the result is an optional
\* string (undefined only when every operand is falsy and defaultQueue is
\* undefined).
ResolveQueue(queueOpt, id, defaultQueue) ==
  IF Truthy(queueOpt) THEN queueOpt
  ELSE IF Len(SplitFirst(id)) > 0 THEN Some(SplitFirst(id))
  ELSE defaultQueue

(***************************************************************************)
(* Bounds and input domains.                                               *)
(***************************************************************************)
\* Longest id / queue option drawn for the queue-name resolution check.
MaxLen == 3

\* Declarations (Task and ScheduledTask objects constructed).
MaxTasks == 2

\* Jobs the broker ever holds (triggered, or added by another producer).
MaxJobs == 2

\* Jobs in the lifecycle specification.
MaxLifecycleJobs == 1

\* stop() calls.
MaxStops == 1

\* configure() calls.
MaxConfigures == 1

Chars == {"a", "q", Dot}

\* All strings of length at most n over Chars.
Strings(n) == UNION {[1..k -> Chars] : k \in 0..n}

\* Task ids declared in the engine: both default to queue "a".
IdAX == <<"a", Dot, "x">>

IdAY == <<"a", Dot, "y">>

TaskIds == {IdAX, IdAY}

\* The explicit queue option of a declaration: absent, or "q".
QueueQ == <<"q">>

QueueOpts == {Undefined, Some(QueueQ)}

QueueNames == {<<"a">>, QueueQ}

\* The concurrency option of a declaration: absent, or 1.
Concurrencies == {Undefined, Some(1)}

\* Decimal text of the numbers 1..9.
ClockText(k) == <<"1", "2", "3", "4", "5", "6", "7", "8", "9">>[k]

\* The payload of a job: the engine never looks into it, so each trigger()
\* call brings its own (the number of the call) and a job added by another
\* producer brings one no trigger() brings.
TriggerPayload(k) == [from |-> "trigger", n |-> k]

ForeignPayload(k) == [from |-> "foreign", n |-> k]

\* A task id that is never declared in this process.
IdAZ == <<"a", Dot, "z">>

\* The connection setting handed to configure().
ConnectionSettings == {"redis1"}

\* A connection setting the Redis constructor rejects by throwing.
InvalidSetting == "invalid"

\* Cron patterns and time zones of scheduled declarations.
Crons == {"c1", "c2"}

TimeZones == {Undefined, Some("tz1")}

(***************************************************************************)
(* Insertion-ordered Map (JavaScript Map): a sequence of [k, v] entries.   *)
(***************************************************************************)
MapHas(m, k) == \E i \in 1..Len(m) : m[i].k = k

MapIndex(m, k) == CHOOSE i \in 1..Len(m) : m[i].k = k

\* Map.prototype.set: replaces the value in place, or appends a new entry.
MapSet(m, k, v) ==
  IF MapHas(m, k)
    THEN [i \in 1..Len(m) |-> IF m[i].k = k THEN [k |-> k, v |-> v] ELSE m[i]]
    ELSE Append(m, [k |-> k, v |-> v])

MapKeys(m) == {m[i].k : i \in 1..Len(m)}

\* Array.from(new Set(map.values())): the distinct values, each at the place
\* of its first occurrence.
RECURSIVE DistinctValues(_)
DistinctValues(m) ==
  IF Len(m) = 0 THEN <<>>
  ELSE LET front == DistinctValues(SubSeq(m, 1, Len(m) - 1))
           last == m[Len(m)].v
       IN IF \E i \in 1..Len(front) : front[i] = last
            THEN front
            ELSE Append(front, last)

(***************************************************************************)
(* State.                                                                  *)
(***************************************************************************)
VARIABLES
  globalConfig,          \* config module: [connection, defaultQueue] (optionals)
  sharedRedisConnection, \* config module: 0 (null) or the shared handle
  redisHandles,          \* every Redis object created: "open" or "quit"
  workers,               \* GlobalWorker.workers: Map queue name -> Worker object
  taskHandlers,          \* GlobalWorker.taskHandlers: Map task id -> handler
  errorHandlers,         \* GlobalWorker.errorHandlers: Map task id -> optional onError
  taskQueues,            \* GlobalWorker.taskQueues: Map task id -> queue name
  redis,                 \* GlobalWorker.redis: 0 (null) or a handle
  isStarted,             \* GlobalWorker.isStarted
  workerObjs,            \* every bullmq Worker constructed
  taskObjs,              \* every Task / ScheduledTask constructed, with the
                         \* concurrency option its config carried
  jobs,                  \* broker: the jobs of all queues
  repeatables,           \* broker: the recurring (repeatable) jobs installed
  addCalls,              \* trigger() calls awaiting queueInstance.add
  stopCalls,             \* stop() calls
  configureCalls,        \* configure() calls
  decl                   \* queue-name resolution: one declaration's input/result

vars == <<globalConfig, sharedRedisConnection, redisHandles, workers,
          taskHandlers, errorHandlers, taskQueues, redis, isStarted,
          workerObjs, taskObjs, jobs, repeatables, addCalls, stopCalls,
          configureCalls, decl>>

(***************************************************************************)
(* The synchronous code of the config module and of GlobalWorker, as       *)
(* functions of the process state p: a record of the variables they read   *)
(* and write.  Each returns the new process state and whether it threw.    *)
(***************************************************************************)
Proc ==
  [globalConfig |-> globalConfig,
   sharedRedisConnection |-> sharedRedisConnection,
   redisHandles |-> redisHandles,
   workers |-> workers,
   taskHandlers |-> taskHandlers,
   errorHandlers |-> errorHandlers,
   taskQueues |-> taskQueues,
   redis |-> redis,
   isStarted |-> isStarted,
   workerObjs |-> workerObjs]

SetProc(p) ==
  /\ globalConfig' = p.globalConfig
  /\ sharedRedisConnection' = p.sharedRedisConnection
  /\ redisHandles' = p.redisHandles
  /\ workers' = p.workers
  /\ taskHandlers' = p.taskHandlers
  /\ errorHandlers' = p.errorHandlers
  /\ taskQueues' = p.taskQueues
  /\ redis' = p.redis
  /\ isStarted' = p.isStarted
  /\ workerObjs' = p.workerObjs

\* The default concurrency of a queue's Worker.
DefaultConcurrency == 5

\* new Redis(config.connection) throws: the catch blocks of
\* getSharedRedisConnection and createRedisConnection turn it into
\* "Failed to create Redis connection".
NewRedisThrows(connection) == Val(connection) = InvalidSetting

\* Mutant of getSharedRedisConnection: a handle is built also when no
\* connection is configured.
getSharedRedisConnection_NoConfigCheck(p) ==
  IF p.sharedRedisConnection # 0
    THEN [p |-> p, ret |-> p.sharedRedisConnection, threw |-> FALSE]
  ELSE LET h == Len(p.redisHandles) + 1
       IN [p |-> [p EXCEPT !.redisHandles = Append(@, "open"),
                           !.sharedRedisConnection = h],
           ret |-> h, threw |-> FALSE]

\* getSharedRedisConnection(): the shared handle, created on first use;
\* throws when no connection is configured or the handle cannot be
\* constructed.  ret is the handle returned.
getSharedRedisConnection(p) ==
  IF p.sharedRedisConnection # 0
    THEN [p |-> p, ret |-> p.sharedRedisConnection, threw |-> FALSE]
  ELSE IF ~IsDefined(p.globalConfig.connection)
    THEN [p |-> p, ret |-> 0, threw |-> TRUE]
  ELSE IF NewRedisThrows(p.globalConfig.connection)
    THEN [p |-> p, ret |-> 0, threw |-> TRUE]
  ELSE LET h == Len(p.redisHandles) + 1
       IN [p |-> [p EXCEPT !.redisHandles = Append(@, "open"),
                           !.sharedRedisConnection = h],
           ret |-> h, threw |-> FALSE]

\* resetSharedRedisConnection(): quits and forgets the shared handle.
resetSharedRedisConnection(p) ==
  IF p.sharedRedisConnection # 0
    THEN [p EXCEPT !.redisHandles[p.sharedRedisConnection] = "quit",
                   !.sharedRedisConnection = 0]
    ELSE p

\* createRedisConnection(): a new handle on every call; throws when no
\* connection is configured or the handle cannot be constructed.
createRedisConnection(p) ==
  IF ~IsDefined(p.globalConfig.connection)
    THEN [p |-> p, ret |-> 0, threw |-> TRUE]
  ELSE IF NewRedisThrows(p.globalConfig.connection)
    THEN [p |-> p, ret |-> 0, threw |-> TRUE]
    ELSE [p |-> [p EXCEPT !.redisHandles = Append(@, "open")],
          ret |-> Len(p.redisHandles) + 1, threw |-> FALSE]

\* The concurrency option handed to bullmq: concurrency || 5.
WorkerConcurrency(concurrency) ==
  IF IsDefined(concurrency) /\ Val(concurrency) # 0
    THEN Val(concurrency)
    ELSE DefaultConcurrency

\* Mutant of createQueueWorker: the Worker is constructed but not stored in
\* the map.
createQueueWorker_NotStored(p, queueName, concurrency) ==
  IF p.redis = 0
    THEN [p |-> p, threw |-> TRUE]
    ELSE [p |-> [p EXCEPT
                   !.workerObjs = Append(@, [queueName |-> queueName,
                                             concurrency |-> WorkerConcurrency(concurrency),
                                             connection |-> p.redis,
                                             status |-> "running"])],
          threw |-> FALSE]

\* GlobalWorker.createQueueWorker(queueName, concurrency): constructs a
\* Worker bound to this.redis and stores it under queueName.
createQueueWorker(p, queueName, concurrency) ==
  IF p.redis = 0
    THEN [p |-> p, threw |-> TRUE]
    ELSE [p |-> [p EXCEPT
                   !.workerObjs = Append(@, [queueName |-> queueName,
                                             concurrency |-> WorkerConcurrency(concurrency),
                                             connection |-> p.redis,
                                             status |-> "running"]),
                   !.workers = MapSet(@, queueName, Len(p.workerObjs) + 1)],
          threw |-> FALSE]

\* Mutant of registerTask: a Worker is created for the queue of every
\* registration on a started engine, also when the queue has one.
registerTask_NoHasCheck(p, taskId, queue, handler, onError, concurrency) ==
  LET p1 == [p EXCEPT !.taskHandlers = MapSet(@, taskId, handler),
                      !.errorHandlers = MapSet(@, taskId, onError),
                      !.taskQueues = MapSet(@, taskId, queue)]
  IN IF p1.isStarted
       THEN createQueueWorker(p1, queue, concurrency)
       ELSE [p |-> p1, threw |-> FALSE]

\* Mutant of registerTask: a pure registry upsert, no Worker is created for
\* a task declared on a started engine.
registerTask_NoCreate(p, taskId, queue, handler, onError, concurrency) ==
  [p |-> [p EXCEPT !.taskHandlers = MapSet(@, taskId, handler),
                   !.errorHandlers = MapSet(@, taskId, onError),
                   !.taskQueues = MapSet(@, taskId, queue)],
   threw |-> FALSE]

\* Mutant of registerTask: a Worker is created for a queue that has none
\* whether or not the engine is started.
registerTask_IgnoresStarted(p, taskId, queue, handler, onError, concurrency) ==
  LET p1 == [p EXCEPT !.taskHandlers = MapSet(@, taskId, handler),
                      !.errorHandlers = MapSet(@, taskId, onError),
                      !.taskQueues = MapSet(@, taskId, queue)]
  IN IF ~MapHas(p1.workers, queue)
       THEN createQueueWorker(p1, queue, concurrency)
       ELSE [p |-> p1, threw |-> FALSE]

\* Mutant of registerTask: the error handler is stored only when one is
\* given, so an earlier onError of the id survives a re-registration
\* without one.
registerTask_KeepsOnError(p, taskId, queue, handler, onError, concurrency) ==
  LET p1 == [p EXCEPT !.taskHandlers = MapSet(@, taskId, handler),
                      !.errorHandlers = IF IsDefined(onError) \/ ~MapHas(@, taskId)
                                          THEN MapSet(@, taskId, onError)
                                          ELSE @,
                      !.taskQueues = MapSet(@, taskId, queue)]
  IN IF ~MapHas(p1.workers, queue) /\ p1.isStarted
       THEN createQueueWorker(p1, queue, concurrency)
       ELSE [p |-> p1, threw |-> FALSE]

\* Mutant of registerTask: one pool for all queues, a Worker is created on
\* a started engine only while the engine has none.
registerTask_OnePool(p, taskId, queue, handler, onError, concurrency) ==
  LET p1 == [p EXCEPT !.taskHandlers = MapSet(@, taskId, handler),
                      !.errorHandlers = MapSet(@, taskId, onError),
                      !.taskQueues = MapSet(@, taskId, queue)]
  IN IF Len(p1.workers) = 0 /\ p1.isStarted
       THEN createQueueWorker(p1, queue, concurrency)
       ELSE [p |-> p1, threw |-> FALSE]

\* GlobalWorker.registerTask(taskId, queue, handler, onError, concurrency).
registerTask(p, taskId, queue, handler, onError, concurrency) ==
  LET p1 == [p EXCEPT !.taskHandlers = MapSet(@, taskId, handler),
                      !.errorHandlers = MapSet(@, taskId, onError),
                      !.taskQueues = MapSet(@, taskId, queue)]
  IN IF ~MapHas(p1.workers, queue) /\ p1.isStarted
       THEN createQueueWorker(p1, queue, concurrency)
       ELSE [p |-> p1, threw |-> FALSE]

\* The loop of start(): createQueueWorker(queue) for each queue in order,
\* with no concurrency argument.
RECURSIVE CreateWorkers(_, _)
CreateWorkers(p, queues) ==
  IF Len(queues) = 0 THEN [p |-> p, threw |-> FALSE]
  ELSE LET r == createQueueWorker(p, Head(queues), Undefined)
       IN IF r.threw THEN r ELSE CreateWorkers(r.p, Tail(queues))

\* Mutant of start: no early return on a started engine.
start_NoGuard(p) ==
  LET c == getSharedRedisConnection(p)
  IN IF c.threw THEN [p |-> p, threw |-> TRUE]
     ELSE LET p1 == [c.p EXCEPT !.redis = c.ret]
              w == CreateWorkers(p1, DistinctValues(p1.taskQueues))
          IN IF w.threw THEN w
             ELSE [p |-> [w.p EXCEPT !.isStarted = TRUE], threw |-> FALSE]

\* GlobalWorker.start(): it has no await, so it runs in one piece.
start(p) ==
  IF p.isStarted THEN [p |-> p, threw |-> FALSE]
  ELSE LET c == getSharedRedisConnection(p)
       IN IF c.threw THEN [p |-> p, threw |-> TRUE]
          ELSE LET p1 == [c.p EXCEPT !.redis = c.ret]
                   w == CreateWorkers(p1, DistinctValues(p1.taskQueues))
               IN IF w.threw THEN w
                  ELSE [p |-> [w.p EXCEPT !.isStarted = TRUE], threw |-> FALSE]

\* Mutant of ensureWorkerStarted: the engine is not started.
ensureWorkerStarted_Noop(p) == p

\* Mutant of ensureWorkerStarted: the engine is started afresh, whatever
\* its state.
ensureWorkerStarted_Restart(p) == start([p EXCEPT !.isStarted = FALSE]).p

\* ensureWorkerStarted(): start() with its rejection only logged.
ensureWorkerStarted(p) == start(p).p

(***************************************************************************)
(* Initial state: the modules loaded, nothing declared or configured.      *)
(***************************************************************************)
NoFn == [fn |-> "none", of |-> 0]

NoDecl == [id |-> <<>>, queue |-> Undefined, defaultQueue |-> Undefined,
           resolved |-> Undefined, declared |-> FALSE]

Init ==
  /\ globalConfig = [connection |-> Undefined,
                     defaultQueue |-> Some(DefaultQueueName)]
  /\ sharedRedisConnection = 0
  /\ redisHandles = <<>>
  /\ workers = <<>>
  /\ taskHandlers = <<>>
  /\ errorHandlers = <<>>
  /\ taskQueues = <<>>
  /\ redis = 0
  /\ isStarted = FALSE
  /\ workerObjs = <<>>
  /\ taskObjs = <<>>
  /\ jobs = <<>>
  /\ repeatables = {}
  /\ addCalls = <<>>
  /\ stopCalls = <<>>
  /\ configureCalls = <<>>
  /\ decl = NoDecl

procVars == <<globalConfig, sharedRedisConnection, redisHandles, workers,
              taskHandlers, errorHandlers, taskQueues, redis, isStarted,
              workerObjs>>

(***************************************************************************)
(* Declarations.                                                           *)
(***************************************************************************)
\* The function objects a declaration passes: the k-th object constructed
\* brings its own run and, when given, its own onError.
RunOf(k) == [fn |-> "run", of |-> k]

OnErrorOf(k) == [fn |-> "onError", of |-> k]

\* new Task(config) (defineTask): resolves the queue and registers.
DefineTask(id, queueOpt, withOnError, concurrency) ==
  LET k == Len(taskObjs) + 1
      queue == Val(ResolveQueue(queueOpt, id, globalConfig.defaultQueue))
      onError == IF withOnError THEN Some(OnErrorOf(k)) ELSE Undefined
      r == registerTask(Proc, id, queue, RunOf(k), onError, concurrency)
  IN /\ SetProc(r.p)
     /\ taskObjs' = Append(taskObjs, [kind |-> "task", id |-> id, queue |-> queue,
                                      run |-> RunOf(k), onError |-> onError,
                                      concurrency |-> concurrency,
                                      queueInstance |-> 0, cron |-> "none",
                                      tz |-> Undefined, pc |-> "none",
                                      existingJob |-> Undefined])
     /\ UNCHANGED <<jobs, repeatables, addCalls, stopCalls, configureCalls, decl>>

\* startWorker(): GlobalWorker.getInstance().start().
StartWorker ==
  /\ SetProc(start(Proc).p)
  /\ UNCHANGED <<taskObjs, jobs, repeatables, addCalls, stopCalls,
                 configureCalls, decl>>

(***************************************************************************)
(* configure(config), with config.connection given.                        *)
(***************************************************************************)
\* Up to the await of testRedis.ping(); configure() rejects before it when
\* getSharedRedisConnection() throws.
ConfigureCall(connection) ==
  LET p0 == IF sharedRedisConnection # 0
              THEN resetSharedRedisConnection(Proc)
              ELSE Proc
      p1 == [p0 EXCEPT !.globalConfig.connection = Some(connection)]
      c == getSharedRedisConnection(p1)
  IN /\ SetProc(c.p)
     /\ configureCalls' = Append(configureCalls,
                                 [pc |-> IF c.threw THEN "rejected" ELSE "ping",
                                  testRedis |-> c.ret])
     /\ UNCHANGED <<taskObjs, jobs, repeatables, addCalls, stopCalls, decl>>

\* Mutant of ConfigurePingOk: an idle engine is started also when no task is
\* registered.
ConfigurePingOk_StartsEmpty(i) ==
  /\ i \in 1..Len(configureCalls)
  /\ configureCalls[i].pc = "ping"
  /\ redisHandles[configureCalls[i].testRedis] = "open"
  /\ IF ~isStarted
       THEN /\ SetProc(start(Proc).p)
            /\ configureCalls' = [configureCalls EXCEPT ![i].pc = "starting"]
       ELSE /\ UNCHANGED procVars
            /\ configureCalls' = [configureCalls EXCEPT ![i].pc = "resolved"]
  /\ UNCHANGED <<taskObjs, jobs, repeatables, addCalls, stopCalls, decl>>

\* The ping answered.  When tasks are registered and the engine is not
\* started, worker.start() is called and configure() awaits its promise;
\* otherwise configure() returns.
ConfigurePingOk(i) ==
  /\ i \in 1..Len(configureCalls)
  /\ configureCalls[i].pc = "ping"
  /\ redisHandles[configureCalls[i].testRedis] = "open"
  /\ IF Len(taskHandlers) > 0 /\ ~isStarted
       THEN /\ SetProc(start(Proc).p)
            /\ configureCalls' = [configureCalls EXCEPT ![i].pc = "starting"]
       ELSE /\ UNCHANGED procVars
            /\ configureCalls' = [configureCalls EXCEPT ![i].pc = "resolved"]
  /\ UNCHANGED <<taskObjs, jobs, repeatables, addCalls, stopCalls, decl>>

\* The awaited promise of worker.start() settled (a rejection is swallowed
\* by the catch): configure() returns.
ConfigureStartDone(i) ==
  /\ i \in 1..Len(configureCalls)
  /\ configureCalls[i].pc = "starting"
  /\ configureCalls' = [configureCalls EXCEPT ![i].pc = "resolved"]
  /\ UNCHANGED <<procVars, taskObjs, jobs, repeatables, addCalls, stopCalls, decl>>

\* The ping failed: reset the shared connection and reject.
ConfigurePingFail(i) ==
  /\ i \in 1..Len(configureCalls)
  /\ configureCalls[i].pc = "ping"
  /\ SetProc(resetSharedRedisConnection(Proc))
  /\ configureCalls' = [configureCalls EXCEPT ![i].pc = "rejected"]
  /\ UNCHANGED <<taskObjs, jobs, repeatables, addCalls, stopCalls, decl>>

(***************************************************************************)
(* Task.trigger(payload) and the broker's answer to queueInstance.add.     *)
(***************************************************************************)
\* Jobs in the broker or on their way to it.
JobCount ==
  Len(jobs) + Cardinality({i \in 1..Len(addCalls) : addCalls[i].status = "sent"})

NewJob(queue, name, data, opts) ==
  [queue |-> queue, name |-> name, data |-> data, opts |-> opts,
   state |-> "waiting", worker |-> 0, processedOn |-> 0, error |-> "none",
   log |-> <<>>]

\* String.prototype.slice(2): the string without its first two characters.
Slice2(str) == SubSeq(str, 3, Len(str))

\* `${this.id}-${Date.now()}-${Math.random().toString(36).slice(2)}`, with
\* now the decimal text of Date.now() and rnd the base-36 text of
\* Math.random().
GeneratedJobId(id, now, rnd) == id \o <<"-">> \o now \o <<"-">> \o Slice2(rnd)

\* { ...a, ...b }: the keys of both, b's value where b has the key.
Spread(a, b) ==
  [k \in (DOMAIN a) \cup (DOMAIN b) |-> IF k \in DOMAIN b THEN b[k] ELSE a[k]]

\* The options bag of a trigger() call made without options.
NoOptions == [k \in {} |-> 0]

\* jobOptions of trigger(): { jobId: <generated>, ...options }.
JobOptions(id, now, rnd, options) ==
  Spread([jobId |-> GeneratedJobId(id, now, rnd)], options)

\* The broker holds a job of this id on the queue: an add under the same
\* job id adds no second job.
HasJobId(queue, opts) ==
  /\ "jobId" \in DOMAIN opts
  /\ \E j \in 1..Len(jobs) :
       /\ jobs[j].queue = queue
       /\ "jobId" \in DOMAIN jobs[j].opts
       /\ jobs[j].opts.jobId = opts.jobId

\* Mutant of Trigger: the start() is awaited without a catch, so its
\* failure rejects trigger() before the add.
Trigger_AwaitsStart(t, now, rnd, options) ==
  LET task == taskObjs[t]
      payload == TriggerPayload(Len(addCalls) + 1)
      c == IF task.queueInstance = 0
             THEN createRedisConnection(Proc)
             ELSE [p |-> Proc, ret |-> task.queueInstance, threw |-> FALSE]
  IN /\ t \in 1..Len(taskObjs)
     /\ task.kind = "task"
     /\ IF c.threw
          THEN /\ addCalls' = Append(addCalls, [task |-> t, name |-> task.id,
                                                data |-> payload,
                                                options |-> options,
                                                opts |-> JobOptions(task.id, now, rnd, options),
                                                stamp |-> <<now, rnd>>,
                                                status |-> "rejected",
                                                startError |-> FALSE])
               /\ UNCHANGED <<procVars, taskObjs>>
          ELSE /\ SetProc(ensureWorkerStarted(c.p))
               /\ taskObjs' = [taskObjs EXCEPT ![t].queueInstance = c.ret]
               /\ addCalls' = Append(addCalls, [task |-> t, name |-> task.id,
                                                data |-> payload,
                                                options |-> options,
                                                opts |-> JobOptions(task.id, now, rnd, options),
                                                stamp |-> <<now, rnd>>,
                                                status |-> IF start(c.p).threw
                                                             THEN "rejected" ELSE "sent",
                                                startError |-> start(c.p).threw])
     /\ UNCHANGED <<jobs, repeatables, stopCalls, configureCalls, decl>>

\* Mutant of Trigger: the producer is created on every call.
Trigger_NewProducer(t, now, rnd, options) ==
  LET task == taskObjs[t]
      payload == TriggerPayload(Len(addCalls) + 1)
      c == createRedisConnection(Proc)
  IN /\ t \in 1..Len(taskObjs)
     /\ task.kind = "task"
     /\ IF c.threw
          THEN /\ addCalls' = Append(addCalls, [task |-> t, name |-> task.id,
                                                data |-> payload,
                                                options |-> options,
                                                opts |-> JobOptions(task.id, now, rnd, options),
                                                stamp |-> <<now, rnd>>,
                                                status |-> "rejected",
                                                startError |-> FALSE])
               /\ UNCHANGED <<procVars, taskObjs>>
          ELSE /\ SetProc(ensureWorkerStarted(c.p))
               /\ taskObjs' = [taskObjs EXCEPT ![t].queueInstance = c.ret]
               /\ addCalls' = Append(addCalls, [task |-> t, name |-> task.id,
                                                data |-> payload,
                                                options |-> options,
                                                opts |-> JobOptions(task.id, now, rnd, options),
                                                stamp |-> <<now, rnd>>,
                                                status |-> "sent",
                                                startError |-> start(c.p).threw])
     /\ UNCHANGED <<jobs, repeatables, stopCalls, configureCalls, decl>>

\* trigger() up to the await of queueInstance.add: the producer is created
\* on first use (createRedisConnection throws when nothing is configured and
\* trigger rejects there), the worker is asked to start (startError: that
\* start() rejected, which is only logged), the add is sent.
Trigger(t, now, rnd, options) ==
  LET task == taskObjs[t]
      payload == TriggerPayload(Len(addCalls) + 1)
      c == IF task.queueInstance = 0
             THEN createRedisConnection(Proc)
             ELSE [p |-> Proc, ret |-> task.queueInstance, threw |-> FALSE]
  IN /\ t \in 1..Len(taskObjs)
     /\ task.kind = "task"
     /\ IF c.threw
          THEN /\ addCalls' = Append(addCalls, [task |-> t, name |-> task.id,
                                                data |-> payload,
                                                options |-> options,
                                                opts |-> JobOptions(task.id, now, rnd, options),
                                                stamp |-> <<now, rnd>>,
                                                status |-> "rejected",
                                                startError |-> FALSE])
               /\ UNCHANGED <<procVars, taskObjs>>
          ELSE /\ SetProc(ensureWorkerStarted(c.p))
               /\ taskObjs' = [taskObjs EXCEPT ![t].queueInstance = c.ret]
               /\ addCalls' = Append(addCalls, [task |-> t, name |-> task.id,
                                                data |-> payload,
                                                options |-> options,
                                                opts |-> JobOptions(task.id, now, rnd, options),
                                                stamp |-> <<now, rnd>>,
                                                status |-> "sent",
                                                startError |-> start(c.p).threw])
     /\ UNCHANGED <<jobs, repeatables, stopCalls, configureCalls, decl>>

\* Mutant of AddAccepted: the broker keeps a job only when a Worker of its
\* queue is running; otherwise the add is answered and the job dropped.
AddAccepted_NeedsConsumer(i) ==
  /\ i \in 1..Len(addCalls)
  /\ addCalls[i].status = "sent"
  /\ jobs' = IF HasJobId(taskObjs[addCalls[i].task].queue, addCalls[i].opts)
                 \/ ~\E w \in 1..Len(workerObjs) :
                        /\ workerObjs[w].queueName = taskObjs[addCalls[i].task].queue
                        /\ workerObjs[w].status = "running"
               THEN jobs
               ELSE Append(jobs, NewJob(taskObjs[addCalls[i].task].queue,
                                        addCalls[i].name, addCalls[i].data,
                                        addCalls[i].opts))
  /\ addCalls' = [addCalls EXCEPT ![i].status = "resolved"]
  /\ UNCHANGED <<procVars, taskObjs, repeatables, stopCalls, configureCalls, decl>>

\* The broker accepted the add: trigger() resolves.  The job is new in its
\* queue unless the queue already has a job of that job id.
AddAccepted(i) ==
  /\ i \in 1..Len(addCalls)
  /\ addCalls[i].status = "sent"
  /\ jobs' = IF HasJobId(taskObjs[addCalls[i].task].queue, addCalls[i].opts)
               THEN jobs
               ELSE Append(jobs, NewJob(taskObjs[addCalls[i].task].queue,
                                        addCalls[i].name, addCalls[i].data,
                                        addCalls[i].opts))
  /\ addCalls' = [addCalls EXCEPT ![i].status = "resolved"]
  /\ UNCHANGED <<procVars, taskObjs, repeatables, stopCalls, configureCalls, decl>>

\* Mutant of AddFailed: the failure of the add is only logged and
\* trigger() resolves.
AddFailed_Swallows(i) ==
  /\ i \in 1..Len(addCalls)
  /\ addCalls[i].status = "sent"
  /\ addCalls' = [addCalls EXCEPT ![i].status = "resolved"]
  /\ UNCHANGED <<procVars, taskObjs, jobs, repeatables, stopCalls,
                 configureCalls, decl>>

\* The add failed (broker unreachable): trigger() rejects.
AddFailed(i) ==
  /\ i \in 1..Len(addCalls)
  /\ addCalls[i].status = "sent"
  /\ addCalls' = [addCalls EXCEPT ![i].status = "rejected"]
  /\ UNCHANGED <<procVars, taskObjs, jobs, repeatables, stopCalls,
                 configureCalls, decl>>

\* A job added to a queue by another producer process, under a task id this
\* process never declares.
ForeignAdd(queue) ==
  /\ jobs' = Append(jobs, NewJob(queue, IdAZ, ForeignPayload(Len(jobs) + 1),
                                 [jobId |-> <<"f", ClockText(Len(jobs) + 1)>>]))
  /\ UNCHANGED <<procVars, taskObjs, repeatables, addCalls, stopCalls,
                 configureCalls, decl>>

(***************************************************************************)
(* The per-queue consumer: the processor and the "failed" listener that    *)
(* createQueueWorker gives to each Worker.                                 *)
(***************************************************************************)
Event(ev, fn, arg, err) == [ev |-> ev, fn |-> fn, arg |-> arg, err |-> err]

\* Mutant of processJob: the handler is taken from the first entry of the
\* registry instead of the entry of taskId.
processJob_FirstHandler(handlers, taskId, data) ==
  IF ~MapHas(handlers, taskId)
    THEN [threw |-> TRUE, calls |-> <<>>]
    ELSE [threw |-> FALSE,
          calls |-> <<Event("run", handlers[1].v, data, "none")>>]

\* Mutant of processJob: a job without a handler is passed over silently
\* instead of failing.
processJob_NoThrow(handlers, taskId, data) ==
  IF ~MapHas(handlers, taskId)
    THEN [threw |-> FALSE, calls |-> <<>>]
    ELSE [threw |-> FALSE,
          calls |-> <<Event("run", handlers[MapIndex(handlers, taskId)].v, data, "none")>>]

\* GlobalWorker.processJob(taskId, data): the handler call it makes, or the
\* error it throws when no handler is registered.
processJob(handlers, taskId, data) ==
  IF ~MapHas(handlers, taskId)
    THEN [threw |-> TRUE, calls |-> <<>>]
    ELSE [threw |-> FALSE,
          calls |-> <<Event("run", handlers[MapIndex(handlers, taskId)].v, data, "none")>>]

\* Mutant of handleJobFailure: onError is called with the payload only, the
\* error is not handed over.
handleJobFailure_WrongArgs(errHandlers, taskId, error, data) ==
  IF MapHas(errHandlers, taskId)
     /\ IsDefined(errHandlers[MapIndex(errHandlers, taskId)].v)
    THEN <<Event("onError", Val(errHandlers[MapIndex(errHandlers, taskId)].v),
                 data, "none")>>
    ELSE <<>>

\* Mutant of handleJobFailure: the first onError of the registry is called,
\* whatever the name of the failed job.
handleJobFailure_AnyOnError(errHandlers, taskId, error, data) ==
  LET given == SelectSeq(errHandlers, LAMBDA en : IsDefined(en.v))
  IN IF Len(given) > 0
       THEN <<Event("onError", Val(given[1].v), data, error)>>
       ELSE <<>>

\* GlobalWorker.handleJobFailure(taskId, error, data): the onError call it
\* makes, if an onError is registered for taskId.
handleJobFailure(errHandlers, taskId, error, data) ==
  IF MapHas(errHandlers, taskId)
     /\ IsDefined(errHandlers[MapIndex(errHandlers, taskId)].v)
    THEN <<Event("onError", Val(errHandlers[MapIndex(errHandlers, taskId)].v),
                 data, error)>>
    ELSE <<>>

\* The broker's clock at a delivery: the jobs finished so far.
Finished == {j \in 1..Len(jobs) : jobs[j].state \in {"completed", "failed"}}

\* Handler bodies executing on Worker w.
ActiveOn(w) == {j \in 1..Len(jobs) : jobs[j].state = "active" /\ jobs[j].worker = w}

\* A Worker fetches jobs while it runs and its connection is open.
CanFetch(w) ==
  /\ workerObjs[w].status = "running"
  /\ redisHandles[workerObjs[w].connection] = "open"
  /\ Cardinality(ActiveOn(w)) < workerObjs[w].concurrency

\* What the catch of handleJobFailure adds when onError failed: the error
\* of onError is caught and only logged.
OnErrorCaught(data) ==
  <<Event("onErrorThrew", NoFn, data, "OnErrorError"),
    Event("logged", NoFn, data, "OnErrorError")>>

\* Mutant of the "failed" listener: no try/catch around onError, so its
\* error surfaces as a second failure of the job.
FailedEvents_NoCatch(taskId, err, data, onErrorThrows) ==
  LET calls == handleJobFailure(errorHandlers, taskId, err, data)
  IN <<Event("failed", NoFn, data, err)>> \o calls \o
     (IF onErrorThrows /\ Len(calls) > 0
        THEN <<Event("onErrorThrew", NoFn, data, "OnErrorError"),
               Event("failed", NoFn, data, "OnErrorError")>>
        ELSE <<>>)

\* What one run of the "failed" listener adds to a job's history: the job
\* is reported failed with err, then onError is called; when onError throws
\* before its first await (onErrorThrows), the catch runs in the same step.
FailedEvents(taskId, err, data, onErrorThrows) ==
  LET calls == handleJobFailure(errorHandlers, taskId, err, data)
  IN <<Event("failed", NoFn, data, err)>> \o calls \o
     (IF onErrorThrows /\ Len(calls) > 0 THEN OnErrorCaught(data) ELSE <<>>)

HasOnError(taskId) == Len(handleJobFailure(errorHandlers, taskId, "none", "none")) > 0

\* Mutant of Deliver: the processor looks the handler up among the tasks
\* registered on the queue of its Worker only.
Deliver_ByQueue(w, j) ==
  LET job == jobs[j]
      own == SelectSeq(taskHandlers,
                       LAMBDA en : /\ MapHas(taskQueues, en.k)
                                   /\ taskQueues[MapIndex(taskQueues, en.k)].v = job.queue)
      r == processJob(own, job.name, job.data)
  IN /\ w \in 1..Len(workerObjs)
     /\ j \in 1..Len(jobs)
     /\ CanFetch(w)
     /\ job.state = "waiting"
     /\ job.queue = workerObjs[w].queueName
     /\ jobs' = [jobs EXCEPT
          ![j].state = "active",
          ![j].worker = w,
          ![j].processedOn = Cardinality(Finished),
          ![j].error = IF r.threw THEN "NoHandler" ELSE "none",
          ![j].log = @ \o r.calls]
     /\ UNCHANGED <<procVars, taskObjs, repeatables, addCalls, stopCalls,
                    configureCalls, decl>>

\* Worker w takes waiting job j of its queue and runs the processor up to
\* the await of the handler; with no handler processJob throws and the
\* processor's promise is rejected, the job being still active.
Deliver(w, j) ==
  LET job == jobs[j]
      r == processJob(taskHandlers, job.name, job.data)
  IN /\ w \in 1..Len(workerObjs)
     /\ j \in 1..Len(jobs)
     /\ CanFetch(w)
     /\ job.state = "waiting"
     /\ job.queue = workerObjs[w].queueName
     /\ jobs' = [jobs EXCEPT
          ![j].state = "active",
          ![j].worker = w,
          ![j].processedOn = Cardinality(Finished),
          ![j].error = IF r.threw THEN "NoHandler" ELSE "none",
          ![j].log = @ \o r.calls]
     /\ UNCHANGED <<procVars, taskObjs, repeatables, addCalls, stopCalls,
                    configureCalls, decl>>

\* The handler of active job j returned: the job is completed.
HandlerReturns(j) ==
  /\ j \in 1..Len(jobs)
  /\ jobs[j].state = "active"
  /\ jobs[j].error = "none"
  /\ jobs' = [jobs EXCEPT ![j].state = "completed",
                          ![j].log = Append(@, Event("completed", NoFn, jobs[j].data, "none"))]
  /\ UNCHANGED <<procVars, taskObjs, repeatables, addCalls, stopCalls,
                 configureCalls, decl>>

\* Mutant of HandlerThrows: the error of the handler escapes the processor
\* and takes the consumer down with the job.
HandlerThrows_Crash(j) ==
  /\ j \in 1..Len(jobs)
  /\ jobs[j].state = "active"
  /\ jobs[j].error = "none"
  /\ jobs' = [jobs EXCEPT ![j].error = "HandlerError"]
  /\ workerObjs' = [workerObjs EXCEPT ![jobs[j].worker].status = "closed"]
  /\ UNCHANGED <<globalConfig, sharedRedisConnection, redisHandles, workers,
                 taskHandlers, errorHandlers, taskQueues, redis, isStarted,
                 taskObjs, repeatables, addCalls, stopCalls, configureCalls, decl>>

\* Mutant of HandlerThrows: a task whose handler threw is taken out of the
\* registry.
HandlerThrows_Unregisters(j) ==
  /\ j \in 1..Len(jobs)
  /\ jobs[j].state = "active"
  /\ jobs[j].error = "none"
  /\ jobs' = [jobs EXCEPT ![j].error = "HandlerError"]
  /\ taskHandlers' = SelectSeq(taskHandlers, LAMBDA en : en.k # jobs[j].name)
  /\ UNCHANGED <<globalConfig, sharedRedisConnection, redisHandles, workers,
                 errorHandlers, taskQueues, redis, isStarted, workerObjs,
                 taskObjs, repeatables, addCalls, stopCalls, configureCalls, decl>>

\* The handler of active job j threw: the await in processJob rethrows and
\* the processor's promise is rejected with the handler's error.
HandlerThrows(j) ==
  /\ j \in 1..Len(jobs)
  /\ jobs[j].state = "active"
  /\ jobs[j].error = "none"
  /\ jobs' = [jobs EXCEPT ![j].error = "HandlerError"]
  /\ UNCHANGED <<procVars, taskObjs, repeatables, addCalls, stopCalls,
                 configureCalls, decl>>

\* The Worker reports job j, whose processor was rejected, as failed and
\* its "failed" listener runs up to the await of onError: handleJobFailure
\* reads the errorHandlers of that moment.
FailedListener(j, onErrorThrows) ==
  /\ j \in 1..Len(jobs)
  /\ jobs[j].state = "active"
  /\ jobs[j].error # "none"
  /\ onErrorThrows => HasOnError(jobs[j].name)
  /\ jobs' = [jobs EXCEPT
       ![j].state = "failed",
       ![j].log = @ \o FailedEvents(jobs[j].name, jobs[j].error, jobs[j].data,
                                   onErrorThrows)]
  /\ UNCHANGED <<procVars, taskObjs, repeatables, addCalls, stopCalls,
                 configureCalls, decl>>

\* The promise of an onError that was awaited by handleJobFailure is
\* rejected: the catch logs the error.  An onError that resolves adds
\* nothing.
OnErrorRejects(j) ==
  /\ j \in 1..Len(jobs)
  /\ jobs[j].state = "failed"
  /\ Len(jobs[j].log) > 0
  /\ jobs[j].log[Len(jobs[j].log)].ev = "onError"
  /\ jobs' = [jobs EXCEPT ![j].log = @ \o OnErrorCaught(jobs[j].data)]
  /\ UNCHANGED <<procVars, taskObjs, repeatables, addCalls, stopCalls,
                 configureCalls, decl>>

(***************************************************************************)
(* GlobalWorker.stop(): closes the Workers of the map one after the other, *)
(* awaiting each close; then clears the map and resets isStarted.          *)
(***************************************************************************)
\* worker.close() called: a running Worker stops fetching.
CloseCalled(objs, w) ==
  [objs EXCEPT ![w].status = IF @ = "running" THEN "closing" ELSE @]

\* Mutant of StopFinish: the reset also empties the registry.
StopFinish_ClearsRegistry(p) ==
  [p EXCEPT !.workers = <<>>, !.isStarted = FALSE, !.taskHandlers = <<>>,
            !.errorHandlers = <<>>, !.taskQueues = <<>>]

\* Mutant of StopFinish: the reset also quits the handle the engine holds,
\* while the config module keeps it as its shared connection.
StopFinish_QuitsRedis(p) ==
  [p EXCEPT !.workers = <<>>, !.isStarted = FALSE,
            !.redisHandles = IF p.redis = 0 THEN @
                             ELSE [@ EXCEPT ![p.redis] = "quit"]]

\* The end of stop(), after the loop.
StopFinish(p) == [p EXCEPT !.workers = <<>>, !.isStarted = FALSE]

\* Mutant of StopCall: the map is cleared and the state reset without
\* closing the Workers.
StopCall_NoClose ==
  /\ SetProc(StopFinish(Proc))
  /\ stopCalls' = Append(stopCalls, [pc |-> "done", awaiting |-> 0, next |-> 0])
  /\ UNCHANGED <<taskObjs, jobs, repeatables, addCalls, configureCalls, decl>>

\* stop() from its call to its first await; with an empty map it has none.
StopCall ==
  /\ IF Len(workers) = 0
       THEN /\ SetProc(StopFinish(Proc))
            /\ stopCalls' = Append(stopCalls, [pc |-> "done", awaiting |-> 0, next |-> 0])
       ELSE /\ SetProc([Proc EXCEPT !.workerObjs = CloseCalled(@, workers[1].v)])
            /\ stopCalls' = Append(stopCalls, [pc |-> "closing",
                                               awaiting |-> workers[1].v,
                                               next |-> 2])
  /\ UNCHANGED <<taskObjs, jobs, repeatables, addCalls, configureCalls, decl>>

\* Mutant of StopResume: the loop ends after the first close, the Workers
\* of the other queues are dropped from the map without being closed.
StopResume_FirstOnly(i) ==
  LET call == stopCalls[i]
      closed == [workerObjs EXCEPT ![call.awaiting].status = "closed"]
  IN /\ i \in 1..Len(stopCalls)
     /\ call.pc = "closing"
     /\ ActiveOn(call.awaiting) = {}
     /\ SetProc(StopFinish([Proc EXCEPT !.workerObjs = closed]))
     /\ stopCalls' = [k \in 1..Len(stopCalls) |->
                        IF k = i
                          THEN [pc |-> "done", awaiting |-> 0, next |-> 0]
                        ELSE IF stopCalls[k].pc = "closing"
                          THEN [stopCalls[k] EXCEPT !.next = 1]
                        ELSE stopCalls[k]]
     /\ UNCHANGED <<taskObjs, jobs, repeatables, addCalls, configureCalls, decl>>

\* The awaited close resolved (the Worker has no handler running any more):
\* the loop goes on with the next entry of the live Map iterator, or ends.
\* A clear() restarts the iterators of the other stop() calls on the map.
StopResume(i) ==
  LET call == stopCalls[i]
      closed == [workerObjs EXCEPT ![call.awaiting].status = "closed"]
  IN /\ i \in 1..Len(stopCalls)
     /\ call.pc = "closing"
     /\ ActiveOn(call.awaiting) = {}
     /\ IF call.next <= Len(workers)
          THEN /\ SetProc([Proc EXCEPT
                             !.workerObjs = CloseCalled(closed, workers[call.next].v)])
               /\ stopCalls' = [stopCalls EXCEPT ![i].awaiting = workers[call.next].v,
                                                 ![i].next = call.next + 1]
          ELSE /\ SetProc(StopFinish([Proc EXCEPT !.workerObjs = closed]))
               /\ stopCalls' = [k \in 1..Len(stopCalls) |->
                                  IF k = i
                                    THEN [pc |-> "done", awaiting |-> 0, next |-> 0]
                                  ELSE IF stopCalls[k].pc = "closing"
                                    THEN [stopCalls[k] EXCEPT !.next = 1]
                                  ELSE stopCalls[k]]
     /\ UNCHANGED <<taskObjs, jobs, repeatables, addCalls, configureCalls, decl>>

(***************************************************************************)
(* ScheduledTask: the constructor and schedule(), its reconcile-and-install *)
(* sequence.  The store keeps one recurring job per key; the key is made   *)
(* of the job's name, its id, the cron pattern and the time zone, so an    *)
(* add with the same name and id but another pattern or time zone is       *)
(* another recurring job.                                                  *)
(***************************************************************************)
RepeatableJob(queue, id, cron, tz) ==
  [queue |-> queue, name |-> id, id |-> id, pattern |-> cron, tz |-> tz]

\* Mutant of FindExisting: nothing installed is ever recognised, so the
\* remove step is skipped.
FindExisting_Never(entries, queue, id) == {}

\* Mutant of FindExisting: any recurring job of the queue matches.
FindExisting_AnyOfQueue(entries, queue, id) ==
  {e \in entries : e.queue = queue}

\* repeatableJobs.find(job => job.id === this.id || job.name === this.id)
\* over the recurring jobs listed for the queue: the entries that match.
FindExisting(entries, queue, id) ==
  {e \in entries : e.queue = queue /\ (e.id = id \/ e.name = id)}

\* Mutant of ScheduleTask: the add is sent first, with no list and no remove.
ScheduleTask_InstallFirst(id, queueOpt, cron, tz, withOnError, concurrency) ==
  LET k == Len(taskObjs) + 1
      queue == Val(ResolveQueue(queueOpt, id, globalConfig.defaultQueue))
      onError == IF withOnError THEN Some(OnErrorOf(k)) ELSE Undefined
      r == registerTask(Proc, id, queue, RunOf(k), onError, concurrency)
      c == createRedisConnection(r.p)
      obj == [kind |-> "scheduled", id |-> id, queue |-> queue,
              run |-> RunOf(k), onError |-> onError,
              concurrency |-> concurrency,
              queueInstance |-> c.ret, cron |-> cron, tz |-> tz,
              pc |-> IF c.threw THEN "failed" ELSE "install",
              existingJob |-> Undefined]
  IN /\ SetProc(IF c.threw THEN r.p ELSE ensureWorkerStarted(c.p))
     /\ taskObjs' = Append(taskObjs, obj)
     /\ UNCHANGED <<jobs, repeatables, addCalls, stopCalls, configureCalls, decl>>

\* new ScheduledTask(config) (scheduleTask): registers like a Task, then
\* runs schedule() up to the await of getRepeatableJobs().  When no
\* connection is configured createRedisConnection throws and schedule()
\* rejects there.
ScheduleTask(id, queueOpt, cron, tz, withOnError, concurrency) ==
  LET k == Len(taskObjs) + 1
      queue == Val(ResolveQueue(queueOpt, id, globalConfig.defaultQueue))
      onError == IF withOnError THEN Some(OnErrorOf(k)) ELSE Undefined
      r == registerTask(Proc, id, queue, RunOf(k), onError, concurrency)
      c == createRedisConnection(r.p)
      obj == [kind |-> "scheduled", id |-> id, queue |-> queue,
              run |-> RunOf(k), onError |-> onError,
              concurrency |-> concurrency,
              queueInstance |-> c.ret, cron |-> cron, tz |-> tz,
              pc |-> IF c.threw THEN "failed" ELSE "list",
              existingJob |-> Undefined]
  IN /\ SetProc(IF c.threw THEN r.p ELSE ensureWorkerStarted(c.p))
     /\ taskObjs' = Append(taskObjs, obj)
     /\ UNCHANGED <<jobs, repeatables, addCalls, stopCalls, configureCalls, decl>>

\* getRepeatableJobs() answered: find the installed job of this id; send
\* removeJobScheduler(existingJob.key) if there is one, else the add.
SchedListOk(k, e) ==
  LET found == FindExisting(repeatables, taskObjs[k].queue, taskObjs[k].id)
  IN /\ k \in 1..Len(taskObjs)
     /\ taskObjs[k].pc = "list"
     /\ IF found = {}
          THEN /\ e = Undefined
               /\ taskObjs' = [taskObjs EXCEPT ![k].pc = "install"]
          ELSE /\ IsDefined(e)
               /\ Val(e) \in found
               /\ taskObjs' = [taskObjs EXCEPT ![k].pc = "remove",
                                               ![k].existingJob = e]
     /\ UNCHANGED <<procVars, jobs, repeatables, addCalls, stopCalls,
                    configureCalls, decl>>

\* removeJobScheduler answered: the entry of that key is gone; send the add.
SchedRemoveOk(k) ==
  /\ k \in 1..Len(taskObjs)
  /\ taskObjs[k].pc = "remove"
  /\ repeatables' = repeatables \ {Val(taskObjs[k].existingJob)}
  /\ taskObjs' = [taskObjs EXCEPT ![k].pc = "install"]
  /\ UNCHANGED <<procVars, jobs, addCalls, stopCalls, configureCalls, decl>>

\* add(id, {}, {repeat: {pattern, tz}, jobId: id}) answered: the recurring
\* job is installed under its key.
SchedInstallOk(k) ==
  /\ k \in 1..Len(taskObjs)
  /\ taskObjs[k].pc = "install"
  /\ repeatables' = repeatables \cup
       {RepeatableJob(taskObjs[k].queue, taskObjs[k].id, taskObjs[k].cron,
                      taskObjs[k].tz)}
  /\ taskObjs' = [taskObjs EXCEPT ![k].pc = "done"]
  /\ UNCHANGED <<procVars, jobs, addCalls, stopCalls, configureCalls, decl>>

\* Mutant of SchedCallFails: the rejection also takes the task out of the
\* registry.
SchedCallFails_Unregisters(k) ==
  /\ k \in 1..Len(taskObjs)
  /\ taskObjs[k].pc \in {"list", "remove", "install"}
  /\ taskObjs' = [taskObjs EXCEPT ![k].pc = "failed"]
  /\ taskHandlers' = SelectSeq(taskHandlers, LAMBDA en : en.k # taskObjs[k].id)
  /\ UNCHANGED <<globalConfig, sharedRedisConnection, redisHandles, workers,
                 errorHandlers, taskQueues, redis, isStarted, workerObjs,
                 jobs, repeatables, addCalls, stopCalls, configureCalls, decl>>

\* Mutant of SchedCallFails: a failed add puts the removed recurring job
\* back into the store.
SchedCallFails_Restores(k) ==
  /\ k \in 1..Len(taskObjs)
  /\ taskObjs[k].pc \in {"list", "remove", "install"}
  /\ taskObjs' = [taskObjs EXCEPT ![k].pc = "failed"]
  /\ repeatables' = IF taskObjs[k].pc = "install" /\ IsDefined(taskObjs[k].existingJob)
                     THEN repeatables \cup {Val(taskObjs[k].existingJob)}
                     ELSE repeatables
  /\ UNCHANGED <<procVars, jobs, addCalls, stopCalls, configureCalls, decl>>

\* A broker call of the sequence failed: schedule() rejects, nobody awaits it.
SchedCallFails(k) ==
  /\ k \in 1..Len(taskObjs)
  /\ taskObjs[k].pc \in {"list", "remove", "install"}
  /\ taskObjs' = [taskObjs EXCEPT ![k].pc = "failed"]
  /\ UNCHANGED <<procVars, jobs, repeatables, addCalls, stopCalls,
                 configureCalls, decl>>

\* The payload of a recurring job: the {} handed to add().
EmptyPayload == [k \in {} |-> 0]

\* The broker fires installed recurring job e: a job of its name is put on
\* its queue.
RepeatFires(e) ==
  /\ e \in repeatables
  /\ jobs' = Append(jobs, NewJob(e.queue, e.name, EmptyPayload,
                                 [jobId |-> <<"r", ClockText(Len(jobs) + 1)>>]))
  /\ UNCHANGED <<procVars, taskObjs, repeatables, addCalls, stopCalls,
                 configureCalls, decl>>

(***************************************************************************)
(* Specifications.  The actions above carry no bound; each specification   *)
(* bounds the calls it makes.                                              *)
(***************************************************************************)
\* What a trigger() call reads from Date.now() and Math.random(), as
\* <<decimal text, base-36 text>>, in the specifications that are not about
\* job ids: the calls fall within one millisecond, and the random texts of
\* two calls are equal or different.
Readings == {<<<<"1">>, <<"0", Dot, "k">>>>, <<<<"1">>, <<"0", Dot, "m">>>>}

\* Room for one more trigger() call / one more job.
MayTrigger(n) == Len(addCalls) < n /\ JobCount < n

\* The state of a process that has awaited configure({connection}) at its
\* start, before declaring anything (ConfigureCall, then ConfigurePingOk).
InitConfigured ==
  /\ globalConfig = [connection |-> Some("redis1"),
                     defaultQueue |-> Some(DefaultQueueName)]
  /\ sharedRedisConnection = 1
  /\ redisHandles = <<"open">>
  /\ workers = <<>>
  /\ taskHandlers = <<>>
  /\ errorHandlers = <<>>
  /\ taskQueues = <<>>
  /\ redis = 0
  /\ isStarted = FALSE
  /\ workerObjs = <<>>
  /\ taskObjs = <<>>
  /\ jobs = <<>>
  /\ repeatables = {}
  /\ addCalls = <<>>
  /\ stopCalls = <<>>
  /\ configureCalls = <<[pc |-> "resolved", testRedis |-> 1]>>
  /\ decl = NoDecl

\* Dispatch: a configured process declares tasks, triggers them and
\* consumes jobs; the broker accepts every add and the process does not
\* call stop().
NextDispatch ==
  \/ \E id \in TaskIds, q \in QueueOpts, oe \in BOOLEAN, c \in Concurrencies :
       Len(taskObjs) < MaxTasks /\ DefineTask(id, q, oe, c)
  \/ StartWorker
  \/ \E t \in 1..Len(taskObjs), s \in Readings : MayTrigger(MaxJobs) /\ Trigger(t, s[1], s[2], NoOptions)
  \/ \E i \in 1..Len(addCalls) : AddAccepted(i)
  \/ \E q \in QueueNames : JobCount < MaxJobs /\ ForeignAdd(q)
  \/ \E w \in 1..Len(workerObjs), j \in 1..Len(jobs) : Deliver(w, j)
  \/ \E j \in 1..Len(jobs) : HandlerReturns(j)
  \/ \E j \in 1..Len(jobs) : HandlerThrows(j)
  \/ \E j \in 1..Len(jobs), b \in BOOLEAN : FailedListener(j, b)
  \/ \E j \in 1..Len(jobs) : OnErrorRejects(j)

SpecDispatch == InitConfigured /\ [][NextDispatch]_vars

\* Lifecycle: every operation of the engine, from the unconfigured state.
Next ==
  \/ \E id \in TaskIds, q \in QueueOpts, oe \in BOOLEAN, c \in Concurrencies :
       Len(taskObjs) < MaxTasks /\ DefineTask(id, q, oe, c)
  \/ StartWorker
  \/ \E cn \in ConnectionSettings :
       Len(configureCalls) < MaxConfigures /\ ConfigureCall(cn)
  \/ \E i \in 1..Len(configureCalls) : ConfigurePingOk(i)
  \/ \E i \in 1..Len(configureCalls) : ConfigureStartDone(i)
  \/ \E i \in 1..Len(configureCalls) : ConfigurePingFail(i)
  \/ \E t \in 1..Len(taskObjs), s \in Readings : MayTrigger(MaxLifecycleJobs) /\ Trigger(t, s[1], s[2], NoOptions)
  \/ \E i \in 1..Len(addCalls) : AddAccepted(i)
  \/ \E i \in 1..Len(addCalls) : AddFailed(i)
  \/ \E q \in QueueNames : JobCount < MaxLifecycleJobs /\ ForeignAdd(q)
  \/ \E w \in 1..Len(workerObjs), j \in 1..Len(jobs) : Deliver(w, j)
  \/ \E j \in 1..Len(jobs) : HandlerReturns(j)
  \/ \E j \in 1..Len(jobs) : HandlerThrows(j)
  \/ \E j \in 1..Len(jobs), b \in BOOLEAN : FailedListener(j, b)
  \/ \E j \in 1..Len(jobs) : OnErrorRejects(j)
  \/ Len(stopCalls) < MaxStops /\ StopCall
  \/ \E i \in 1..Len(stopCalls) : StopResume(i)

Spec == Init /\ [][Next]_vars

\* Triggering: a configured process declares tasks and triggers them; it
\* calls neither startWorker() nor stop(), so the engine is started only by
\* the triggers.
NextTrigger ==
  \/ \E id \in TaskIds, q \in QueueOpts, oe \in BOOLEAN, c \in Concurrencies :
       Len(taskObjs) < MaxTasks /\ DefineTask(id, q, oe, c)
  \/ \E t \in 1..Len(taskObjs), s \in Readings : MayTrigger(MaxJobs) /\ Trigger(t, s[1], s[2], NoOptions)
  \/ \E i \in 1..Len(addCalls) : AddAccepted(i)
  \/ \E i \in 1..Len(addCalls) : AddFailed(i)

SpecTrigger == InitConfigured /\ [][NextTrigger]_vars

\* Reconfiguration: a configured process declares and triggers tasks, may
\* stop the engine, and may call configure() with a connection setting the
\* Redis constructor rejects; the producers made before keep working.
NextReconfigure ==
  \/ \E id \in {IdAX}, q \in QueueOpts, oe \in BOOLEAN :
       Len(taskObjs) < MaxTasks /\ DefineTask(id, q, oe, Undefined)
  \/ \E t \in 1..Len(taskObjs), s \in Readings : MayTrigger(MaxJobs) /\ Trigger(t, s[1], s[2], NoOptions)
  \/ \E i \in 1..Len(addCalls) : AddAccepted(i)
  \/ \E i \in 1..Len(addCalls) : AddFailed(i)
  \/ Len(configureCalls) < MaxConfigures + 1 /\ ConfigureCall(InvalidSetting)
  \/ Len(stopCalls) < MaxStops /\ StopCall
  \/ \E i \in 1..Len(stopCalls) : StopResume(i)

SpecReconfigure == InitConfigured /\ [][NextReconfigure]_vars

\* Readings of Date.now(), as decimal text: two calls may read the same.
Times == {<<"1">>, <<"2">>}

\* Outcomes of Math.random().toString(36); "0" is the text of 0.
Randoms == {<<"0", Dot, "k">>, <<"0", Dot, "m">>, <<"0">>}

\* Options bags handed to trigger(): none, a job id, another option, both.
OptionBags ==
  {NoOptions, [jobId |-> <<"j">>], [delay |-> "d5"],
   [jobId |-> <<"j">>, delay |-> "d5"]}

\* Job ids: a configured process declares tasks and triggers them with and
\* without options; the clock and the random values are drawn, and two calls
\* may draw the same pair.
NextJobId ==
  \/ \E id \in TaskIds :
       Len(taskObjs) < MaxTasks /\ DefineTask(id, Undefined, FALSE, Undefined)
  \/ \E t \in 1..Len(taskObjs), now \in Times, rnd \in Randoms, o \in OptionBags :
       MayTrigger(MaxJobs) /\ Trigger(t, now, rnd, o)
  \/ \E i \in 1..Len(addCalls) : AddAccepted(i)
  \/ \E i \in 1..Len(addCalls) : AddFailed(i)

SpecJobId == InitConfigured /\ [][NextJobId]_vars

\* A reconcile-and-install sequence of id is between its list and its end.
Reconciling(id) ==
  \E k \in 1..Len(taskObjs) :
    /\ taskObjs[k].kind = "scheduled"
    /\ taskObjs[k].id = id
    /\ taskObjs[k].pc \in {"list", "remove", "install"}

InstalledEntries == {Undefined} \cup {Some(e) : e \in repeatables}

\* Scheduling: a configured process declares scheduled tasks; the sequences
\* of several declarations (also of one id) run interleaved.
NextSched ==
  \/ \E id \in TaskIds, q \in QueueOpts, cr \in Crons, tz \in TimeZones :
       Len(taskObjs) < MaxTasks /\ ScheduleTask(id, q, cr, tz, FALSE, Undefined)
  \/ \E k \in 1..Len(taskObjs), e \in InstalledEntries : SchedListOk(k, e)
  \/ \E k \in 1..Len(taskObjs) : SchedRemoveOk(k)
  \/ \E k \in 1..Len(taskObjs) : SchedInstallOk(k)
  \/ \E k \in 1..Len(taskObjs) : SchedCallFails(k)

SpecSched == InitConfigured /\ [][NextSched]_vars

\* Re-deployment: as NextSched, but an id is declared again only when no
\* sequence of that id is still running (the earlier process is done).
NextRedeploy ==
  \/ \E id \in TaskIds, q \in QueueOpts, cr \in Crons, tz \in TimeZones :
       /\ Len(taskObjs) < MaxTasks
       /\ ~Reconciling(id)
       /\ ScheduleTask(id, q, cr, tz, FALSE, Undefined)
  \/ \E k \in 1..Len(taskObjs), e \in InstalledEntries : SchedListOk(k, e)
  \/ \E k \in 1..Len(taskObjs) : SchedRemoveOk(k)
  \/ \E k \in 1..Len(taskObjs) : SchedInstallOk(k)
  \/ \E k \in 1..Len(taskObjs) : SchedCallFails(k)

SpecRedeploy == InitConfigured /\ [][NextRedeploy]_vars

\* Scheduling with failures: scheduled tasks are declared on the queue of
\* their id prefix, their broker calls may fail, and the recurring jobs
\* installed in the store fire and are delivered.
NextSchedFail ==
  \/ \E id \in TaskIds, cr \in Crons :
       Len(taskObjs) < MaxTasks /\ ScheduleTask(id, Undefined, cr, Undefined, FALSE, Undefined)
  \/ \E k \in 1..Len(taskObjs), e \in InstalledEntries : SchedListOk(k, e)
  \/ \E k \in 1..Len(taskObjs) : SchedRemoveOk(k)
  \/ \E k \in 1..Len(taskObjs) : SchedInstallOk(k)
  \/ \E k \in 1..Len(taskObjs) : SchedCallFails(k)
  \/ \E e \in repeatables : Len(jobs) < MaxLifecycleJobs /\ RepeatFires(e)
  \/ \E w \in 1..Len(workerObjs), j \in 1..Len(jobs) : Deliver(w, j)
  \/ \E j \in 1..Len(jobs) : HandlerReturns(j)

SpecSchedFail == InitConfigured /\ [][NextSchedFail]_vars

\* Pending jobs: tasks are declared and triggered while the engine is
\* started and stopped, so that an add can be answered when no Worker of
\* the queue exists.  The broker hands a waiting job to a Worker that can
\* fetch it (weak fairness of the delivery).
Delivery == \E w \in 1..Len(workerObjs), j \in 1..Len(jobs) : Deliver(w, j)

NextPending ==
  \/ \E id \in TaskIds, q \in QueueOpts :
       Len(taskObjs) < MaxTasks /\ DefineTask(id, q, FALSE, Undefined)
  \/ StartWorker
  \/ \E t \in 1..Len(taskObjs), s \in Readings :
       MayTrigger(MaxLifecycleJobs) /\ Trigger(t, s[1], s[2], NoOptions)
  \/ \E i \in 1..Len(addCalls) : AddAccepted(i)
  \/ Len(stopCalls) < MaxStops /\ StopCall
  \/ \E i \in 1..Len(stopCalls) : StopResume(i)
  \/ Delivery
  \/ \E j \in 1..Len(jobs) : HandlerReturns(j)

SpecPending == InitConfigured /\ [][NextPending]_vars /\ WF_vars(Delivery)

\* The registry under every operation: plain and scheduled declarations on
\* the queue of their id prefix, start, stop, configure, trigger, handler
\* and onError failures and failing schedule calls, from the unconfigured
\* process.
NextRegistry ==
  \/ \E id \in TaskIds, oe \in BOOLEAN :
       Len(taskObjs) < MaxTasks /\ DefineTask(id, Undefined, oe, Undefined)
  \/ \E id \in TaskIds :
       Len(taskObjs) < MaxTasks
         /\ ScheduleTask(id, Undefined, "c1", Undefined, FALSE, Undefined)
  \/ \E k \in 1..Len(taskObjs), e \in InstalledEntries : SchedListOk(k, e)
  \/ \E k \in 1..Len(taskObjs) : SchedRemoveOk(k)
  \/ \E k \in 1..Len(taskObjs) : SchedInstallOk(k)
  \/ \E k \in 1..Len(taskObjs) : SchedCallFails(k)
  \/ StartWorker
  \/ \E cn \in ConnectionSettings :
       Len(configureCalls) < MaxConfigures /\ ConfigureCall(cn)
  \/ \E i \in 1..Len(configureCalls) : ConfigurePingOk(i)
  \/ \E i \in 1..Len(configureCalls) : ConfigureStartDone(i)
  \/ \E i \in 1..Len(configureCalls) : ConfigurePingFail(i)
  \/ \E t \in 1..Len(taskObjs), s \in Readings :
       MayTrigger(MaxLifecycleJobs) /\ Trigger(t, s[1], s[2], NoOptions)
  \/ \E i \in 1..Len(addCalls) : AddAccepted(i)
  \/ \E w \in 1..Len(workerObjs), j \in 1..Len(jobs) : Deliver(w, j)
  \/ \E j \in 1..Len(jobs) : HandlerThrows(j)
  \/ \E j \in 1..Len(jobs), b \in BOOLEAN : FailedListener(j, b)
  \/ \E j \in 1..Len(jobs) : OnErrorRejects(j)
  \/ Len(stopCalls) < MaxStops /\ StopCall
  \/ \E i \in 1..Len(stopCalls) : StopResume(i)

SpecRegistry == Init /\ [][NextRegistry]_vars

\* Calls racing with stop(): tasks are declared before the engine is first
\* started or while a stop() awaits a close, so a Worker that registerTask
\* creates is created during the stop; trigger() is called while a stop()
\* awaits a close.
NextStopRace ==
  \/ \E id \in TaskIds, q \in QueueOpts, c \in Concurrencies :
       /\ Len(taskObjs) < MaxTasks
       /\ (Len(workerObjs) = 0
             \/ \E i \in 1..Len(stopCalls) : stopCalls[i].pc = "closing")
       /\ DefineTask(id, q, FALSE, c)
  \/ StartWorker
  \/ \E t \in 1..Len(taskObjs), s \in Readings :
       /\ MayTrigger(MaxLifecycleJobs)
       /\ \E i \in 1..Len(stopCalls) : stopCalls[i].pc = "closing"
       /\ Trigger(t, s[1], s[2], NoOptions)
  \/ \E i \in 1..Len(addCalls) : AddAccepted(i)
  \/ \E w \in 1..Len(workerObjs), j \in 1..Len(jobs) : Deliver(w, j)
  \/ \E j \in 1..Len(jobs) : HandlerReturns(j)
  \/ Len(stopCalls) < MaxStops /\ StopCall
  \/ \E i \in 1..Len(stopCalls) : StopResume(i)

SpecStopRace == InitConfigured /\ [][NextStopRace]_vars

(***************************************************************************)
(* Queue-name resolution on its own: configure({defaultQueue}) and the     *)
(* first lines of the Task / ScheduledTask constructors, for every id and  *)
(* queue option up to MaxLen characters.                                   *)
(***************************************************************************)
\* configure({defaultQueue: dq}): no connection given, the config is merged.
ConfigureDefaultQueue(dq) ==
  /\ globalConfig' = [globalConfig EXCEPT !.defaultQueue = Some(dq)]
  /\ UNCHANGED <<sharedRedisConnection, redisHandles, workers, taskHandlers,
                 errorHandlers, taskQueues, redis, isStarted, workerObjs,
                 taskObjs, jobs, repeatables, addCalls, stopCalls,
                 configureCalls, decl>>

\* new Task(config) with the id and the queue option drawn from all short
\* strings: this.queue = config.queue || config.id.split(".")[0] ||
\* defaultQueue, then registerTask.  decl keeps what the constructor read
\* and what it resolved.
ResolveDeclaration(id, queueOpt) ==
  LET k == Len(taskObjs) + 1
      resolved == ResolveQueue(queueOpt, id, globalConfig.defaultQueue)
      r == registerTask(Proc, id, Val(resolved), RunOf(k), Undefined, Undefined)
  IN /\ decl' = [id |-> id, queue |-> queueOpt,
                 defaultQueue |-> globalConfig.defaultQueue,
                 resolved |-> resolved,
                 declared |-> TRUE]
     /\ SetProc(r.p)
     /\ taskObjs' = Append(taskObjs, [kind |-> "task", id |-> id,
                                      queue |-> Val(resolved),
                                      run |-> RunOf(k), onError |-> Undefined,
                                      concurrency |-> Undefined,
                                      queueInstance |-> 0, cron |-> "none",
                                      tz |-> Undefined, pc |-> "none",
                                      existingJob |-> Undefined])
     /\ UNCHANGED <<jobs, repeatables, addCalls, stopCalls, configureCalls>>

NextResolve ==
  \/ \E dq \in Strings(1) : ConfigureDefaultQueue(dq)
  \/ \E id \in Strings(MaxLen), q \in {Undefined} \cup {Some(x) : x \in Strings(1)} :
       Len(taskObjs) < MaxTasks /\ ResolveDeclaration(id, q)

SpecResolve == Init /\ [][NextResolve]_vars

(***************************************************************************)
(* Claims.                                                                 *)
(***************************************************************************)
\* C1: the resolved queue of a declaration is the explicit queue option when
\* one is given; otherwise, for an id with a ".", the part of the id before
\* its first "."; otherwise, for an id with no ".", the configured default
\* queue name ("default" when none was configured).
C1_QueueResolution ==
  decl.declared =>
    IF Truthy(decl.queue) THEN decl.resolved = decl.queue
    ELSE IF Includes(decl.id, Dot)
      THEN Len(SplitFirst(decl.id)) > 0 => decl.resolved = Some(SplitFirst(decl.id))
    ELSE decl.resolved = decl.defaultQueue

(***************************************************************************)
(* Vocabulary of the dispatch claims.                                      *)
(***************************************************************************)
Declared(id) == \E k \in 1..Len(taskObjs) : taskObjs[k].id = id

\* The latest declaration of id: re-registration is last write wins.
LatestDecl(id) ==
  CHOOSE k \in 1..Len(taskObjs) :
    /\ taskObjs[k].id = id
    /\ \A m \in 1..Len(taskObjs) : taskObjs[m].id = id => m <= k

EventsOf(j, ev) == {n \in 1..Len(jobs[j].log) : jobs[j].log[n].ev = ev}

\* Job j is taken from its queue in this step.
Delivered(j) == jobs[j].state = "waiting" /\ jobs'[j].state # "waiting"

\* Job j, whose processor was rejected, is reported failed in this step:
\* the "failed" listener runs.
Threw(j) == jobs[j].state = "active" /\ jobs'[j].state = "failed"

OthersUntouched(j) ==
  /\ Len(jobs') = Len(jobs)
  /\ \A i \in 1..Len(jobs) : i # j => jobs'[i] = jobs[i]

\* Worker objects serving queue q that are not closed.
LiveConsumers(q) ==
  {w \in 1..Len(workerObjs) :
     workerObjs[w].queueName = q /\ workerObjs[w].status # "closed"}

\* C2: routing.  When a job named by a declared task id X is delivered, the
\* handler of the latest declaration of X is invoked, once, with the job's
\* payload, and no other job or handler is touched, also when another task
\* shares the queue.
C2_Routing ==
  [][\A j \in 1..Len(jobs) :
       (Delivered(j) /\ Declared(jobs[j].name)) =>
         /\ jobs'[j].state = "active"
         /\ jobs'[j].log = Append(jobs[j].log,
                                  Event("run", RunOf(LatestDecl(jobs[j].name)),
                                        jobs[j].data, "none"))
         /\ OthersUntouched(j)]_vars

\* A job of one task runs while another task is declared on its queue.
C2_Witness ==
  \E j \in 1..Len(jobs), k \in 1..Len(taskObjs) :
    /\ jobs[j].state = "active"
    /\ Cardinality(EventsOf(j, "run")) = 1
    /\ taskObjs[k].id # jobs[j].name
    /\ taskObjs[k].queue = jobs[j].queue

\* C3: each queue name has at most one live consumer.
C3_OneConsumerPerQueue ==
  \A q \in QueueNames : Cardinality(LiveConsumers(q)) <= 1

\* The engine was stopped and started again: a queue has its second Worker.
C3_Witness ==
  \E w1, w2 \in 1..Len(workerObjs) :
    /\ w1 # w2
    /\ workerObjs[w1].queueName = workerObjs[w2].queueName
    /\ workerObjs[w1].status = "closed"
    /\ workerObjs[w2].status = "running"
    /\ isStarted

\* C4: the handlers running at once on a queue never exceed the concurrency
\* given at registration: when every declaration on a queue gave
\* concurrency 1, at most one handler body runs on it at a time.
C4_ConcurrencyHonored ==
  \A q \in QueueNames :
    LET ds == {k \in 1..Len(taskObjs) : taskObjs[k].queue = q}
    IN (ds # {} /\ \A k \in ds : taskObjs[k].concurrency = Some(1)) =>
         Cardinality({j \in 1..Len(jobs) :
                        jobs[j].state = "active" /\ jobs[j].queue = q}) <= 1

\* Job j failed because its handler threw.
FailedByHandler(j) ==
  /\ jobs[j].state = "failed"
  /\ \E n \in EventsOf(j, "failed") : jobs[j].log[n].err = "HandlerError"

\* What a delivery of job j to a declared task adds to its history.
RunEvent(j) ==
  Event("run", RunOf(LatestDecl(jobs[j].name)), jobs[j].data, "none")

\* C7: failure isolation.  A job whose handler threw leaves its consumer
\* running, and a job of a declared task delivered on the same queue after
\* that failure has its handler invoked.
C7_FailureIsolation ==
  /\ [](\A j \in 1..Len(jobs) :
          jobs[j].error = "HandlerError" =>
            workerObjs[jobs[j].worker].status = "running")
  /\ [][\A j1, j2 \in 1..Len(jobs) :
          (/\ FailedByHandler(j1)
           /\ jobs[j2].queue = jobs[j1].queue
           /\ Delivered(j2)
           /\ Declared(jobs[j2].name)) =>
            /\ jobs'[j2].state = "active"
            /\ jobs'[j2].log = Append(jobs[j2].log, RunEvent(j2))]_vars

\* The handler of X threw; afterwards the same consumer delivered a job of
\* another task Y and runs Y's handler.
C7_Witness ==
  \E j1, j2 \in 1..Len(jobs) :
    /\ FailedByHandler(j1)
    /\ jobs[j2].state = "active"
    /\ jobs[j2].worker = jobs[j1].worker
    /\ jobs[j2].name # jobs[j1].name
    /\ jobs[j2].processedOn > jobs[j1].processedOn
    /\ jobs[j2].processedOn = 1

\* C8: error-handler isolation.  When the onError of a failed job throws
\* or rejects, its error is only logged: the job is failed exactly once,
\* with the error its processor was rejected with and not the error of
\* onError, and its consumer keeps running.
C8_OnErrorIsolation ==
  \A j \in 1..Len(jobs) :
    EventsOf(j, "onErrorThrew") # {} =>
      /\ jobs[j].state = "failed"
      /\ Cardinality(EventsOf(j, "failed")) = 1
      /\ jobs[j].error \in {"HandlerError", "NoHandler"}
      /\ \A n \in EventsOf(j, "failed") : jobs[j].log[n].err = jobs[j].error
      /\ \E n \in EventsOf(j, "logged") : jobs[j].log[n].err = "OnErrorError"
      /\ workerObjs[jobs[j].worker].status = "running"

\* The handler of a job threw, the onError of its task was invoked and
\* failed in turn.
C8_Witness ==
  \E j \in 1..Len(jobs) :
    /\ jobs[j].error = "HandlerError"
    /\ EventsOf(j, "onError") # {}
    /\ EventsOf(j, "onErrorThrew") # {}

\* C9: unknown-task routing.  The processor of a delivered job whose name
\* is not declared is rejected with the no-handler error without invoking a
\* handler; when the job is then reported, it is reported failed with that
\* error, still no handler has run for it (and no onError either while its
\* name stays undeclared), and the Workers are left as they were.
C9_UnknownTask ==
  /\ [][\A j \in 1..Len(jobs) :
          (Delivered(j) /\ ~Declared(jobs[j].name)) =>
            /\ jobs'[j].error = "NoHandler"
            /\ jobs'[j].log = jobs[j].log
            /\ workerObjs' = workerObjs
            /\ OthersUntouched(j)]_vars
  /\ [][\A j \in 1..Len(jobs) :
          (Threw(j) /\ jobs[j].error = "NoHandler") =>
            /\ Len(jobs'[j].log) > Len(jobs[j].log)
            /\ SubSeq(jobs'[j].log, 1, Len(jobs[j].log) + 1) =
                 Append(jobs[j].log,
                        Event("failed", NoFn, jobs[j].data, "NoHandler"))
            /\ \A n \in 1..Len(jobs'[j].log) : jobs'[j].log[n].ev # "run"
            /\ ~Declared(jobs[j].name) =>
                 Len(jobs'[j].log) = Len(jobs[j].log) + 1
            /\ workerObjs' = workerObjs
            /\ OthersUntouched(j)]_vars
  /\ [](\A j \in 1..Len(jobs) :
          jobs[j].error = "NoHandler" => EventsOf(j, "run") = {})

\* A job of an undeclared task was failed, and the same consumer delivered
\* the next job afterwards.
C9_Witness ==
  \E j1, j2 \in 1..Len(jobs) :
    /\ jobs[j1].state = "failed"
    /\ EventsOf(j1, "run") = {}
    /\ \E n \in EventsOf(j1, "failed") : jobs[j1].log[n].err = "NoHandler"
    /\ jobs[j2].worker = jobs[j1].worker
    /\ jobs[j2].state = "active"
    /\ jobs[j2].processedOn = 1

\* C10: when the handler of a delivered job threw, the job is marked
\* failed with that error and, if the latest declaration of its task at
\* that moment gave an onError, that onError is invoked with the error and
\* the job's payload.
C10_HandlerFailure ==
  [][\A j \in 1..Len(jobs) :
       (Threw(j) /\ jobs[j].error = "HandlerError") =>
         LET k == LatestDecl(jobs[j].name)
             expected ==
               <<Event("failed", NoFn, jobs[j].data, "HandlerError")>> \o
               (IF IsDefined(taskObjs[k].onError)
                  THEN <<Event("onError", OnErrorOf(k), jobs[j].data, "HandlerError")>>
                  ELSE <<>>)
             n == Len(jobs[j].log) + Len(expected)
         IN /\ Len(jobs'[j].log) >= n
            /\ SubSeq(jobs'[j].log, 1, n) = jobs[j].log \o expected
            /\ \A m \in (n + 1)..Len(jobs'[j].log) :
                 jobs'[j].log[m].ev \in {"onErrorThrew", "logged"}]_vars

\* A handler threw and the onError of its task was invoked.
C10_Witness ==
  \E j \in 1..Len(jobs) :
    /\ FailedByHandler(j)
    /\ EventsOf(j, "onError") # {}

\* The recurring jobs the store holds for task id on queue q.
EntriesOf(q, id) == {e \in repeatables : e.queue = q /\ e.name = id}

\* C5: at every moment the store holds at most one recurring job for a
\* scheduled-task id (on its queue), also when reconcile-and-install
\* sequences of that id overlap.
C5_OneRecurringJob ==
  \A q \in QueueNames, id \in TaskIds : Cardinality(EntriesOf(q, id)) <= 1

\* C6: idempotent schedule upsert.  When the declaration of id X is run
\* again on the same queue after the earlier run is over, then once the
\* latest run has completed the store holds exactly one recurring entry for
\* X, with the cron pattern and the time zone of that latest run.
C6_IdempotentUpsert ==
  \A id \in TaskIds :
    (Declared(id) /\ taskObjs[LatestDecl(id)].pc = "done"
       /\ \A k \in 1..Len(taskObjs) :
            taskObjs[k].id = id => taskObjs[k].queue = taskObjs[LatestDecl(id)].queue) =>
      LET d == taskObjs[LatestDecl(id)]
      IN EntriesOf(d.queue, id) = {RepeatableJob(d.queue, id, d.cron, d.tz)}

\* X was installed with one cron, declared again with another, and the
\* second reconciliation has completed.
C6_Witness ==
  \E k1, k2 \in 1..Len(taskObjs) :
    /\ k1 < k2
    /\ taskObjs[k1].id = taskObjs[k2].id
    /\ taskObjs[k1].queue = taskObjs[k2].queue
    /\ taskObjs[k1].cron # taskObjs[k2].cron
    /\ taskObjs[k1].pc = "done"
    /\ taskObjs[k2].pc = "done"
    /\ IsDefined(taskObjs[k2].existingJob)

(***************************************************************************)
(* Vocabulary of the lifecycle claims.                                     *)
(***************************************************************************)
\* A stop() call is between its first await and its end.
Stopping == \E i \in 1..Len(stopCalls) : stopCalls[i].pc = "closing"

\* The engine holds a running Worker for queue q.
HasLiveConsumer(q) ==
  /\ MapHas(workers, q)
  /\ workerObjs[workers[MapIndex(workers, q)].v].status = "running"

\* The queue names of the registry.
RegisteredQueues == {taskQueues[i].v : i \in 1..Len(taskQueues)}

\* C11: whenever the engine is started (and no stop() is under way), every
\* queue name with at least one registered task has a live consumer.
C11_ConsumerPerRegisteredQueue ==
  (isStarted /\ ~Stopping) => \A q \in RegisteredQueues : HasLiveConsumer(q)

\* The engine was started with a task on one queue, and the task was then
\* registered again on another queue: registerTask created the second
\* consumer, next to the one start() created.
C11_Witness ==
  /\ isStarted
  /\ Len(stopCalls) = 0
  /\ Len(workers) = 2
  /\ Len(taskQueues) = 1
  /\ HasLiveConsumer(taskQueues[1].v)
  /\ workers[2].k = taskQueues[1].v

\* A stop() call reaches its end in this step.
StopCompletes ==
  \E i \in 1..Len(stopCalls') :
    /\ stopCalls'[i].pc = "done"
    /\ (i > Len(stopCalls) \/ stopCalls[i].pc # "done")

\* C12: start() is idempotent.  On a started engine start() returns without
\* error and changes nothing (consumers, registry, connection); the engine
\* leaves the started state only when a stop() completes, so the start()
\* calls made without a stop() in between cause one idle-to-started
\* transition, and that transition creates exactly one consumer per
\* registered queue.
C12_StartIdempotent ==
  /\ [](isStarted => start(Proc) = [p |-> Proc, threw |-> FALSE])
  /\ [][(isStarted /\ ~isStarted') => StopCompletes]_vars
  /\ [][(~isStarted /\ isStarted') =>
          /\ Len(workers) = 0
          /\ Len(workers') = Cardinality({taskQueues'[i].v : i \in 1..Len(taskQueues')})
          /\ Len(workerObjs') = Len(workerObjs) + Len(workers')]_vars

\* A task declared on the started engine (its consumer was created by
\* registerTask) has been triggered: that trigger called start() on the
\* started engine.
C12_Witness ==
  /\ isStarted
  /\ Len(stopCalls) = 0
  /\ Len(workers) = 2
  /\ Len(taskQueues) = 1
  /\ Len(addCalls) = 1
  /\ addCalls[1].task = 2
  /\ addCalls[1].status = "sent"

\* C13: when a stop() completes, every consumer the engine created has been
\* closed, the engine holds no consumer, and the lifecycle state is idle.
C13_StopClosesAll ==
  [][StopCompletes =>
       /\ \A w \in 1..Len(workerObjs') : workerObjs'[w].status = "closed"
       /\ workers' = <<>>
       /\ ~isStarted']_vars

\* A stop() of an engine that was started with consumers on two queues has
\* completed.
C13_Witness ==
  /\ Len(stopCalls) = 1
  /\ stopCalls[1].pc = "done"
  /\ Len(workerObjs) = 2
  /\ workerObjs[1].queueName # workerObjs[2].queueName
  /\ \A w \in 1..Len(workerObjs) : workerObjs[w].status = "closed"
  /\ ~isStarted

\* C14: when a stop() completes, the connection the engine obtained in
\* start() has been released: the handle the engine holds is not open.
C14_StopReleasesConnection ==
  [][StopCompletes => (redis' = 0 \/ redisHandles'[redis'] = "quit")]_vars

\* C15: from the completion of a stop() until the engine is started again,
\* no job is taken from a queue and no handler invocation begins, also for
\* jobs enqueued in that interval.
C15_NoInvocationWhileIdle ==
  [][(~isStarted /\ \E i \in 1..Len(stopCalls) : stopCalls[i].pc = "done") =>
       \A j \in 1..Len(jobs) : ~Delivered(j)]_vars

\* A stop() of a started engine has completed, the engine is idle, and a
\* job waits on a queue whose consumer was closed.
C15_Witness ==
  /\ ~isStarted
  /\ \E i \in 1..Len(stopCalls) : stopCalls[i].pc = "done"
  /\ \E j \in 1..Len(jobs), w \in 1..Len(workerObjs) :
       /\ jobs[j].state = "waiting"
       /\ workerObjs[w].queueName = jobs[j].queue
       /\ workerObjs[w].status = "closed"
       /\ MapHas(taskHandlers, jobs[j].name)

\* stop() is called in this step.
StopCalled == Len(stopCalls') = Len(stopCalls) + 1

\* C16: stop() on an engine that was never started is a no-op: it completes
\* at once without error and leaves the registry, the empty consumer set,
\* the connection and the idle state as they were.
C16_StopNeverStarted ==
  [][(StopCalled /\ redis = 0 /\ ~isStarted) =>
       /\ stopCalls'[Len(stopCalls')].pc = "done"
       /\ UNCHANGED procVars
       /\ workers = <<>>]_vars

\* stop() has completed on an engine that has tasks registered and was
\* never started.
C16_Witness ==
  /\ Len(stopCalls) = 1
  /\ stopCalls[1].pc = "done"
  /\ redis = 0
  /\ ~isStarted
  /\ Len(taskHandlers) = 2
  /\ Len(workerObjs) = 0

\* C17: the lifecycle is idle <-> started.  On an engine that was started
\* and stopped, start() succeeds; the step that starts it again creates,
\* for every queue of the registry, a new running consumer on an open
\* connection, so jobs enqueued afterwards are fetched.
C17_Restart ==
  /\ []((~isStarted /\ redis # 0) =>
          (~start(Proc).threw /\ start(Proc).p.isStarted))
  /\ [][(~isStarted /\ isStarted' /\ redis # 0) =>
          \A i \in 1..Len(taskQueues') :
            LET q == taskQueues'[i].v
            IN /\ MapHas(workers', q)
               /\ LET w == workers'[MapIndex(workers', q)].v
                  IN /\ w > Len(workerObjs)
                     /\ workerObjs'[w].status = "running"
                     /\ workerObjs'[w].concurrency > 0
                     /\ redisHandles'[workerObjs'[w].connection] = "open"]_vars

\* The engine was stopped and started again, and the new consumer of a
\* queue has run the handler of a job while the old one is closed.
C17_Witness ==
  /\ isStarted
  /\ \E i \in 1..Len(stopCalls) : stopCalls[i].pc = "done"
  /\ \E j \in 1..Len(jobs), w1 \in 1..Len(workerObjs) :
       /\ EventsOf(j, "run") # {}
       /\ jobs[j].worker > w1
       /\ workerObjs[w1].queueName = jobs[j].queue
       /\ workerObjs[w1].status = "closed"
       /\ workerObjs[jobs[j].worker].status = "running"

\* A Task is constructed in this step; its record is the last of taskObjs'.
TaskDeclared ==
  /\ Len(taskObjs') = Len(taskObjs) + 1
  /\ taskObjs'[Len(taskObjs')].kind = "task"

\* C18: declaring a task while the engine is idle changes only the
\* registry (the entries of the task's id are set): no consumer is created,
\* no connection is created or used, and the engine stays idle.
C18_DeclareWhileIdle ==
  [][(TaskDeclared /\ ~isStarted) =>
       LET d == taskObjs'[Len(taskObjs')]
       IN /\ taskHandlers' = MapSet(taskHandlers, d.id, d.run)
          /\ errorHandlers' = MapSet(errorHandlers, d.id, d.onError)
          /\ taskQueues' = MapSet(taskQueues, d.id, d.queue)
          /\ UNCHANGED <<workers, workerObjs, redis, sharedRedisConnection,
                         redisHandles, globalConfig, isStarted>>]_vars

\* A task was declared on the idle engine after a stop(): the registry has
\* its queue, for which no consumer was ever created.
C18_Witness ==
  /\ ~isStarted
  /\ \E i \in 1..Len(stopCalls) : stopCalls[i].pc = "done"
  /\ redis # 0
  /\ \E i \in 1..Len(taskQueues) :
       \A w \in 1..Len(workerObjs) : workerObjs[w].queueName # taskQueues[i].v

\* The entries of map m under key k.
EntriesUnder(m, k) == {i \in 1..Len(m) : m[i].k = k}

\* C19: the registry holds one entry per declared task id, and it is the one
\* of the latest declaration (last write wins): a job of id X delivered
\* after X was declared again runs the latest handler, and when its handler
\* throws, the latest onError is invoked, or none when the latest
\* declaration gave none.
C19_LastWriteWins ==
  /\ [](\A id \in TaskIds :
          Declared(id) =>
            LET d == taskObjs[LatestDecl(id)]
            IN /\ Cardinality(EntriesUnder(taskHandlers, id)) = 1
               /\ Cardinality(EntriesUnder(errorHandlers, id)) = 1
               /\ Cardinality(EntriesUnder(taskQueues, id)) = 1
               /\ taskHandlers[MapIndex(taskHandlers, id)].v = d.run
               /\ errorHandlers[MapIndex(errorHandlers, id)].v = d.onError
               /\ taskQueues[MapIndex(taskQueues, id)].v = d.queue)
  /\ [][\A j \in 1..Len(jobs) :
          (Delivered(j) /\ Declared(jobs[j].name)) =>
            {jobs'[j].log[n].fn : n \in 1..Len(jobs'[j].log)} =
              {taskObjs[LatestDecl(jobs[j].name)].run}]_vars
  /\ [][\A j \in 1..Len(jobs) :
          (Threw(j) /\ jobs[j].error = "HandlerError") =>
            LET d == taskObjs[LatestDecl(jobs[j].name)]
                called == {jobs'[j].log[n].fn :
                             n \in {m \in 1..Len(jobs'[j].log) :
                                      jobs'[j].log[m].ev = "onError"}}
            IN called = IF IsDefined(d.onError) THEN {Val(d.onError)} ELSE {}]_vars

\* X was declared with an onError and then again without one; a job of X
\* ran the handler of the second declaration, the handler threw, and no
\* onError was invoked.
C19_Witness ==
  \E j \in 1..Len(jobs) :
    /\ Len(taskObjs) = 2
    /\ taskObjs[1].id = jobs[j].name
    /\ taskObjs[2].id = jobs[j].name
    /\ IsDefined(taskObjs[1].onError)
    /\ ~IsDefined(taskObjs[2].onError)
    /\ FailedByHandler(j)
    /\ \E n \in EventsOf(j, "run") : jobs[j].log[n].fn = RunOf(2)
    /\ EventsOf(j, "onError") = {}

\* C20: re-registering a task id with a different concurrency value is
\* last write wins: when a task id is declared again on its queue with a
\* concurrency that differs from the one of its earlier declaration, the
\* consumer of that queue on the started engine runs with the new value
\* from then on.
C20_ConcurrencyLastWriteWins ==
  [][(/\ TaskDeclared
      /\ isStarted'
      /\ IsDefined(taskObjs'[Len(taskObjs')].concurrency)
      /\ \E k \in 1..Len(taskObjs) :
           /\ taskObjs[k].id = taskObjs'[Len(taskObjs')].id
           /\ taskObjs[k].queue = taskObjs'[Len(taskObjs')].queue
           /\ taskObjs[k].concurrency # taskObjs'[Len(taskObjs')].concurrency) =>
       LET d == taskObjs'[Len(taskObjs')]
       IN /\ MapHas(workers', d.queue)
          /\ workerObjs'[workers'[MapIndex(workers', d.queue)].v].concurrency =
               Val(d.concurrency)]_vars

(***************************************************************************)
(* Vocabulary of the trigger claims.                                       *)
(***************************************************************************)
\* The queue of the Task that trigger() call i was made on.
QueueOfCall(i) == taskObjs[addCalls[i].task].queue

\* Task object t is the one the registry holds for its id: the latest
\* declaration of that id.
IsRegistered(t) == LatestDecl(taskObjs[t].id) = t

\* The running Worker the engine holds for queue q is on an open connection.
ConsumerConnected(q) ==
  /\ HasLiveConsumer(q)
  /\ redisHandles[workerObjs[workers[MapIndex(workers, q)].v].connection] = "open"

\* C21: the worker starts automatically on the first trigger.  With a
\* connection configured and no startWorker() call, once a trigger() has
\* sent the job of a registered task, and so when it completes, the engine
\* is started and holds a running consumer for the task's queue.
C21_AutoStart ==
  \A i \in 1..Len(addCalls) :
    (addCalls[i].status \in {"sent", "resolved"} /\ IsRegistered(addCalls[i].task)) =>
      (isStarted /\ ConsumerConnected(QueueOfCall(i)))

\* The first trigger() has completed: the engine is started and serves the
\* queue of the triggered task.
C21_Witness ==
  /\ Len(addCalls) = 1
  /\ addCalls[1].status = "resolved"
  /\ IsRegistered(addCalls[1].task)
  /\ isStarted
  /\ ConsumerConnected(QueueOfCall(1))
  /\ Len(jobs) = 1

\* trigger() is called in this step; its record is the last of addCalls'.
TriggerCalled == Len(addCalls') = Len(addCalls) + 1

\* C22: trigger() does not depend on the outcome of engine startup.  When
\* the start() a trigger() kicks off fails, the failure is only reported:
\* the engine is left as it was, the add is sent all the same, and when the
\* broker accepts it the job is in its queue and trigger() resolves.
C22_StartFailureIgnored ==
  /\ [][(TriggerCalled /\ addCalls'[Len(addCalls')].startError) =>
          /\ addCalls'[Len(addCalls')].status = "sent"
          /\ UNCHANGED procVars]_vars
  /\ [][\A i \in 1..Len(addCalls) :
          (addCalls[i].startError /\ addCalls[i].status = "sent"
             /\ Len(jobs') = Len(jobs) + 1 /\ addCalls'[i] # addCalls[i]) =>
            /\ addCalls'[i].status = "resolved"
            /\ jobs'[Len(jobs')] = NewJob(QueueOfCall(i), addCalls[i].name,
                                          addCalls[i].data, addCalls[i].opts)]_vars

\* The start() of a trigger() failed, and the trigger() has resolved with
\* its job in the broker.
C22_Witness ==
  \E i \in 1..Len(addCalls), j \in 1..Len(jobs) :
    /\ addCalls[i].startError
    /\ addCalls[i].status = "resolved"
    /\ jobs[j].data = addCalls[i].data
    /\ jobs[j].name = addCalls[i].name
    /\ ~isStarted

\* The jobs in the broker that trigger() call i enqueued.
JobsOfCall(i) ==
  {j \in 1..Len(jobs) :
     jobs[j].name = addCalls[i].name /\ jobs[j].data = addCalls[i].data}

\* C23: each trigger() call issues one enqueue request and adds at most one
\* job.  When the enqueue fails, trigger() rejects and stays rejected, and
\* no job of that call ever reaches the broker (no retry); a call that
\* resolved added at most one job, and the broker holds a job under the
\* job id of its request.
C23_EnqueueFailure ==
  /\ [](\A i \in 1..Len(addCalls) :
          /\ Cardinality(JobsOfCall(i)) <= 1
          /\ addCalls[i].status # "resolved" => JobsOfCall(i) = {}
          /\ addCalls[i].status = "resolved" =>
               HasJobId(QueueOfCall(i), addCalls[i].opts))
  /\ [][\A i \in 1..Len(addCalls) :
          addCalls[i].status = "rejected" => addCalls'[i] = addCalls[i]]_vars
  /\ [][Len(jobs') <= Len(jobs) + 1]_vars

\* The enqueue of the first trigger() failed and it rejected; a second
\* trigger() was accepted, and the broker holds that one job only.
C23_Witness ==
  /\ Len(addCalls) = 2
  /\ addCalls[1].status = "rejected"
  /\ taskObjs[addCalls[1].task].queueInstance # 0
  /\ addCalls[2].status = "resolved"
  /\ Len(jobs) = 1
  /\ JobsOfCall(2) = {1}

\* trigger() call i was made without a job id in its options.
NoJobIdGiven(i) == "jobId" \notin DOMAIN addCalls[i].options

\* C24: the options of a trigger() call reach the broker as given, with a
\* job id added when the caller gave none; a caller-supplied job id is used
\* as it is.  The generated ids of two calls on the same task differ, and
\* each such call that resolved has its own job in the broker, carrying
\* the call's options.
C24_JobIds ==
  /\ \A i \in 1..Len(addCalls) :
       /\ DOMAIN addCalls[i].opts = (DOMAIN addCalls[i].options) \cup {"jobId"}
       /\ \A k \in DOMAIN addCalls[i].options :
            addCalls[i].opts[k] = addCalls[i].options[k]
  /\ \A i, k \in 1..Len(addCalls) :
       (i # k /\ addCalls[i].task = addCalls[k].task
          /\ NoJobIdGiven(i) /\ NoJobIdGiven(k)) =>
         addCalls[i].opts.jobId # addCalls[k].opts.jobId
  /\ \A i \in 1..Len(addCalls) :
       (addCalls[i].status = "resolved" /\ NoJobIdGiven(i)) =>
         \E j \in 1..Len(jobs) :
           /\ jobs[j].data = addCalls[i].data
           /\ jobs[j].name = addCalls[i].name
           /\ jobs[j].opts = addCalls[i].opts

\* The Tasks that have created their producer.
WithProducer == {t \in 1..Len(taskObjs) : taskObjs[t].queueInstance # 0}

\* C25: each Task creates its producer handle at most once and reuses it:
\* the connections created are the shared one and one per Task that has a
\* producer, and a Task that has a producer keeps that same producer, also
\* when trigger() calls on it overlap.
C25_ProducerOnce ==
  /\ [](Len(redisHandles) = 1 + Cardinality(WithProducer))
  /\ [](\A t1, t2 \in WithProducer :
          t1 # t2 => taskObjs[t1].queueInstance # taskObjs[t2].queueInstance)
  /\ [][\A t \in WithProducer :
          taskObjs'[t].queueInstance = taskObjs[t].queueInstance]_vars

\* Two trigger() calls on one Task are both waiting for their add, and the
\* Task has made one producer.
C25_Witness ==
  /\ Len(addCalls) = 2
  /\ addCalls[1].task = addCalls[2].task
  /\ addCalls[1].status = "sent"
  /\ addCalls[2].status = "sent"
  /\ taskObjs[addCalls[1].task].queueInstance # 0
  /\ Len(redisHandles) = 2

\* C26: the broker connection handle is created at most once per process
\* and shared by all producers and consumers: at most one connection
\* handle is open.
C26_OneConnection ==
  Cardinality({h \in 1..Len(redisHandles) : redisHandles[h] = "open"}) <= 1

\* C27: with no connection configured, start() throws and changes nothing:
\* no consumer, no connection, the engine idle, the registry as it was.
NotConfigured == ~IsDefined(globalConfig.connection)

C27_StartUnconfigured ==
  (NotConfigured /\ ~isStarted) =>
    /\ start(Proc).threw
    /\ start(Proc).p = Proc
    /\ Len(workers) = 0 /\ Len(workerObjs) = 0 /\ Len(redisHandles) = 0

\* Two queues are registered, so a start() that went through would have
\* built two consumers.
C27_Witness ==
  /\ NotConfigured /\ ~isStarted
  /\ Cardinality(RegisteredQueues) = 2
  /\ start(Proc).threw /\ ensureWorkerStarted(Proc) = Proc

\* C28: the reconcile-and-install sequence of a scheduled task runs in
\* order: the engine is started, the recurring jobs of the queue are listed,
\* the entry matching the id by id or by name is removed if one was found,
\* then the recurring job named and keyed by the id is installed; no install
\* before the list and the remove of the same sequence.
SchedStep(k, from, to) == taskObjs[k].pc = from /\ taskObjs'[k].pc = to

MatchesId(e, k) ==
  e.queue = taskObjs[k].queue /\ (e.id = taskObjs[k].id \/ e.name = taskObjs[k].id)

SchedOrder ==
  { <<"list", "remove">>, <<"list", "install">>, <<"remove", "install">>,
    <<"install", "done">>, <<"list", "failed">>, <<"remove", "failed">>,
    <<"install", "failed">> }

C28_ReconcileOrder ==
  /\ [](\A k \in 1..Len(taskObjs) :
          taskObjs[k].pc \in {"list", "remove", "install", "done"} => isStarted)
  /\ [][/\ \A k \in 1..Len(taskObjs) :
            /\ taskObjs'[k].pc # taskObjs[k].pc =>
                  <<taskObjs[k].pc, taskObjs'[k].pc>> \in SchedOrder
            /\ SchedStep(k, "list", "remove") =>
                  /\ IsDefined(taskObjs'[k].existingJob)
                  /\ Val(taskObjs'[k].existingJob) \in repeatables
                  /\ MatchesId(Val(taskObjs'[k].existingJob), k)
            /\ SchedStep(k, "list", "install") =>
                  ~\E e \in repeatables : MatchesId(e, k)
            /\ SchedStep(k, "remove", "install") =>
                  repeatables' = repeatables \ {Val(taskObjs[k].existingJob)}
            /\ SchedStep(k, "install", "done") =>
                  repeatables' = repeatables \cup
                    {[queue |-> taskObjs[k].queue, name |-> taskObjs[k].id,
                      id |-> taskObjs[k].id, pattern |-> taskObjs[k].cron,
                      tz |-> taskObjs[k].tz]}
        /\ Len(taskObjs') > Len(taskObjs) =>
              taskObjs'[Len(taskObjs')].pc \in {"list", "failed"}
        /\ repeatables' # repeatables =>
              \E k \in 1..Len(taskObjs) :
                SchedStep(k, "remove", "install") \/ SchedStep(k, "install", "done")
     ]_vars

\* A sequence that went through all its steps: it found an entry of its id,
\* removed it and installed its own, another one.
C28_Witness ==
  \E k \in 1..Len(taskObjs) :
    /\ taskObjs[k].pc = "done" /\ isStarted
    /\ IsDefined(taskObjs[k].existingJob)
    /\ Val(taskObjs[k].existingJob) \notin repeatables
    /\ RepeatableJob(taskObjs[k].queue, taskObjs[k].id, taskObjs[k].cron,
                     taskObjs[k].tz) \in repeatables

\* C29: scheduled tasks with distinct ids on one queue each get their own
\* recurring entry.  No step of the sequence of task X removes an entry of
\* another id, and once the sequences of X and Y (each declared once, on the
\* same queue) have completed the queue holds exactly the entry of X and the
\* entry of Y.
DeclaredOnce(k) ==
  \A k2 \in 1..Len(taskObjs) : taskObjs[k2].id = taskObjs[k].id => k2 = k

OwnEntry(k) ==
  [queue |-> taskObjs[k].queue, name |-> taskObjs[k].id, id |-> taskObjs[k].id,
   pattern |-> taskObjs[k].cron, tz |-> taskObjs[k].tz]

C29_OwnEntryPerId ==
  /\ [][\A e \in repeatables \ repeatables' :
          \E k \in 1..Len(taskObjs) :
            /\ taskObjs'[k].pc # taskObjs[k].pc
            /\ e.id = taskObjs[k].id /\ e.name = taskObjs[k].id]_vars
  /\ [](\A k1, k2 \in 1..Len(taskObjs) :
          (/\ k1 # k2
           /\ DeclaredOnce(k1) /\ DeclaredOnce(k2)
           /\ taskObjs[k1].queue = taskObjs[k2].queue
           /\ taskObjs[k1].pc = "done" /\ taskObjs[k2].pc = "done") =>
            {e \in repeatables : e.queue = taskObjs[k1].queue} =
              {OwnEntry(k1), OwnEntry(k2)})

\* Two scheduled tasks of distinct ids on one queue, both reconciled, each
\* with its own entry in the store.
C29_Witness ==
  /\ Len(taskObjs) = 2
  /\ taskObjs[1].id # taskObjs[2].id
  /\ taskObjs[1].queue = taskObjs[2].queue
  /\ taskObjs[1].pc = "done" /\ taskObjs[2].pc = "done"
  /\ OwnEntry(1) \in repeatables /\ OwnEntry(2) \in repeatables
  /\ Cardinality(repeatables) = 2

\* C30: a failed step of schedule reconciliation leaves the task
\* registered.  The failing step changes nothing of the registry; while a
\* sequence of id X has failed, the handler of the latest declaration of X
\* is in the registry under X with a running consumer on its queue, and a
\* job named X that is delivered has that handler invoked.
SchedFailed(id) ==
  \E k \in 1..Len(taskObjs) : taskObjs[k].id = id /\ taskObjs[k].pc = "failed"

C30_FailureKeepsRegistration ==
  /\ [](\A id \in TaskIds : SchedFailed(id) =>
          /\ MapHas(taskHandlers, id)
          /\ taskHandlers[MapIndex(taskHandlers, id)].v = RunOf(LatestDecl(id))
          /\ MapHas(taskQueues, id)
          /\ HasLiveConsumer(taskQueues[MapIndex(taskQueues, id)].v))
  /\ [][/\ \A k \in 1..Len(taskObjs) :
            (taskObjs[k].pc # "failed" /\ taskObjs'[k].pc = "failed") =>
              UNCHANGED <<taskHandlers, errorHandlers, taskQueues, workers>>
        /\ \A j \in 1..Len(jobs) :
            (Delivered(j) /\ SchedFailed(jobs[j].name)) =>
              /\ jobs'[j].state = "active"
              /\ jobs'[j].log = Append(jobs[j].log, RunEvent(j))
     ]_vars

\* The second declaration of an id failed in its sequence; a recurring job
\* left in the store for the id fired and the handler of that second
\* declaration was invoked with it.
C30_Witness ==
  \E j \in 1..Len(jobs) :
    /\ Len(taskObjs) = 2
    /\ taskObjs[1].id = taskObjs[2].id
    /\ taskObjs[2].pc = "failed"
    /\ jobs[j].name = taskObjs[2].id
    /\ jobs[j].state \in {"active", "completed"}
    /\ jobs[j].log[1] = Event("run", RunOf(2), EmptyPayload, "none")

\* C31: a job enqueued while no consumer exists for its queue is not lost.
\* Every accepted add has a job under its job id in the broker, a waiting
\* job is never dropped or altered and leaves the
\* waiting state only by a delivery that invokes the handler of its task id
\* with its payload, and a job whose queue has a consumer from some point on
\* eventually has that handler invoked.
Ran(j) == \E n \in 1..Len(jobs[j].log) : jobs[j].log[n] = RunEvent(j)

C31_PendingJobIsServed ==
  /\ [](\A i \in 1..Len(addCalls) :
          addCalls[i].status = "resolved" =>
            HasJobId(QueueOfCall(i), addCalls[i].opts))
  /\ [][/\ Len(jobs') >= Len(jobs)
        /\ \A j \in 1..Len(jobs) :
             /\ jobs'[j].name = jobs[j].name /\ jobs'[j].data = jobs[j].data
             /\ Delivered(j) =>
                  /\ LiveConsumers(jobs[j].queue) # {}
                  /\ jobs'[j].log = <<RunEvent(j)>>]_vars
  /\ \A j \in 1..MaxLifecycleJobs :
       <>[](j \in DOMAIN jobs /\ HasLiveConsumer(jobs[j].queue)) =>
         <>(j \in DOMAIN jobs /\ Ran(j))

\* The add of a trigger() was answered after a stop() had completed: the
\* job waits in the broker while the engine is idle and its queue has no
\* consumer.
C31_Witness ==
  \E j \in 1..Len(jobs) :
    /\ jobs[j].state = "waiting"
    /\ ~isStarted /\ ~Stopping
    /\ LiveConsumers(jobs[j].queue) = {}
    /\ \E i \in 1..Len(stopCalls) : stopCalls[i].pc = "done"

\* The consumer of queue q has as many handlers running as its concurrency
\* allows.
Saturated(w) ==
  workerObjs[w].status = "running"
  /\ Cardinality(ActiveOn(w)) = workerObjs[w].concurrency

QueueAtLimit(q) == \E w \in LiveConsumers(q) : Saturated(w)

\* No consumer of queue q is at its limit.
QueueBelowLimit(q) ==
  \A w \in LiveConsumers(q) :
    Cardinality(ActiveOn(w)) < workerObjs[w].concurrency

\* C32: queues are served independently.  On a started engine, while the
\* consumer of queue Q1 has as many handlers running as its concurrency
\* allows, a waiting job of a declared task on another registered queue Q2,
\* none of whose consumers is at its limit, can start its handler: the
\* engine holds a consumer of Q2 that can take the job at once, with the
\* handlers of Q1 still running.
C32_QueuesIndependent ==
  \A q1, q2 \in QueueNames, j \in 1..Len(jobs) :
    (/\ isStarted
     /\ q1 # q2
     /\ QueueAtLimit(q1)
     /\ q2 \in RegisteredQueues
     /\ QueueBelowLimit(q2)
     /\ jobs[j].state = "waiting"
     /\ jobs[j].queue = q2
     /\ Declared(jobs[j].name)) =>
      \E w2 \in LiveConsumers(q2) :
        /\ MapHas(workers, q2)
        /\ workers[MapIndex(workers, q2)].v = w2
        /\ ENABLED (/\ Deliver(w2, j)
                    /\ jobs'[j].state = "active"
                    /\ jobs'[j].log = <<RunEvent(j)>>
                    /\ OthersUntouched(j))

\* The consumer of one queue is at its limit with a handler running, while
\* a job of a declared task waits on another registered queue whose
\* consumer has no handler running.
C32_Witness ==
  \E w1 \in 1..Len(workerObjs), j \in 1..Len(jobs) :
    /\ isStarted
    /\ Saturated(w1)
    /\ ActiveOn(w1) # {}
    /\ jobs[j].state = "waiting"
    /\ jobs[j].queue # workerObjs[w1].queueName
    /\ jobs[j].queue \in RegisteredQueues
    /\ Declared(jobs[j].name)
    /\ QueueBelowLimit(jobs[j].queue)

\* C33: a registered task definition is never removed.  No step deletes a
\* task id from the registry (handler and queue name), so the set of
\* registered ids only grows.
RegisteredIds == {taskHandlers[i].k : i \in 1..Len(taskHandlers)}

C33_RegistryOnlyGrows ==
  [][/\ RegisteredIds \subseteq {taskHandlers'[i].k : i \in 1..Len(taskHandlers')}
     /\ \A id \in RegisteredIds : MapHas(taskQueues', id)]_vars

\* Two ids are registered after a stop() has completed, a handler has
\* thrown, a schedule sequence has failed and a configure() has ended.
C33_Witness ==
  /\ Cardinality(RegisteredIds) = 2
  /\ \E i \in 1..Len(stopCalls) : stopCalls[i].pc = "done"
  /\ \E j \in 1..Len(jobs) : FailedByHandler(j)
  /\ \E k \in 1..Len(taskObjs) : taskObjs[k].pc = "failed"
  /\ \E i \in 1..Len(configureCalls) : configureCalls[i].pc \in {"resolved", "rejected"}

\* C34: configure() changes the engine lifecycle in one way only.  A step
\* of configure() changes the started flag only when its connection check
\* has succeeded on an idle engine with at least one registered task, and
\* then it starts it; a configure() that rejects leaves the flag and the
\* consumers as they were, so an idle engine stays idle.
ConfigureStep == configureCalls' # configureCalls

ConfigureEnds(pc) ==
  \E i \in 1..Len(configureCalls') :
    /\ configureCalls'[i].pc = pc
    /\ (i > Len(configureCalls) \/ configureCalls[i].pc # pc)

\* The ping of a configure() call is answered in this step.
PingAnswered ==
  \E i \in 1..Len(configureCalls) :
    /\ configureCalls[i].pc = "ping"
    /\ configureCalls'[i].pc \in {"starting", "resolved"}

C34_ConfigureLifecycle ==
  [][ConfigureStep =>
       /\ isStarted' # isStarted =>
            /\ ~isStarted /\ isStarted'
            /\ Len(taskHandlers) > 0
            /\ PingAnswered
       /\ (PingAnswered /\ ~isStarted /\ Len(taskHandlers) > 0) =>
            /\ isStarted'
            /\ \A q \in RegisteredQueues : HasLiveConsumer(q)'
       /\ (PingAnswered /\ (isStarted \/ Len(taskHandlers) = 0)) =>
            ConfigureEnds("resolved")
       /\ ConfigureEnds("rejected") =>
            UNCHANGED <<isStarted, workers, workerObjs, taskHandlers>>
       /\ UNCHANGED <<taskHandlers, errorHandlers, taskQueues>>]_vars

\* A configure() has resolved and the engine runs a consumer for the
\* registered task, with no start or trigger call besides.
C34_Witness ==
  /\ \E i \in 1..Len(configureCalls) : configureCalls[i].pc = "resolved"
  /\ isStarted
  /\ Len(taskHandlers) > 0
  /\ \A q \in RegisteredQueues : HasLiveConsumer(q)
  /\ Len(addCalls) = 0 /\ Len(stopCalls) = 0

\* C35: when the install of a schedule reconciliation fails after its remove
\* succeeded, the recurring job that was removed is not restored: the store
\* is left as the remove left it and holds no recurring entry for the task
\* id on the queue (for declarations of the id that run one after the
\* other).
InstallFails(k) ==
  /\ taskObjs[k].pc = "install"
  /\ taskObjs'[k].pc = "failed"
  /\ IsDefined(taskObjs[k].existingJob)

C35_NoRestore ==
  [][\A k \in 1..Len(taskObjs) :
       InstallFails(k) =>
         /\ repeatables' = repeatables
         /\ Val(taskObjs[k].existingJob) \notin repeatables'
         /\ ~\E e \in repeatables' :
               e.queue = taskObjs[k].queue
                 /\ (e.id = taskObjs[k].id \/ e.name = taskObjs[k].id)]_vars

\* A sequence found the entry of an earlier declaration, removed it and
\* failed at its install: the store holds no entry for the id.
C35_Witness ==
  \E k \in 1..Len(taskObjs) :
    /\ taskObjs[k].pc = "failed"
    /\ IsDefined(taskObjs[k].existingJob)
    /\ Val(taskObjs[k].existingJob) \notin repeatables
    /\ \E k1 \in 1..(k - 1) :
         taskObjs[k1].id = taskObjs[k].id /\ taskObjs[k1].pc = "done"
    /\ ~\E e \in repeatables : e.id = taskObjs[k].id

\* C36: after stop() completes no consumer is live, also when registerTask
\* for a new queue runs while stop() awaits the close of another consumer.
\* A Worker created while a stop() is under way is stored in the map that
\* stop() is iterating and the stop() goes on; and whenever the engine is
\* idle with no stop() under way, every Worker ever created is closed.
C36_StopClosesLateConsumers ==
  /\ []((~isStarted /\ ~Stopping) =>
          \A w \in 1..Len(workerObjs) : workerObjs[w].status = "closed")
  /\ [][(TaskDeclared /\ Stopping /\ Len(workerObjs') > Len(workerObjs)) =>
          /\ Stopping'
          /\ \E n \in 1..Len(workers') : workers'[n].v = Len(workerObjs')]_vars

\* A stop() has completed on an engine that was started with one consumer;
\* the task was declared again, on another queue, while that stop() awaited
\* the close (start() builds one consumer for one id, so the second is of
\* registerTask), and the consumer created for it is closed as well.
C36_Witness ==
  /\ Len(stopCalls) = 1 /\ stopCalls[1].pc = "done"
  /\ ~isStarted
  /\ Len(workerObjs) = 2
  /\ workerObjs[1].queueName # workerObjs[2].queueName
  /\ Len(taskObjs) = 2
  /\ taskObjs[1].id = taskObjs[2].id
  /\ taskObjs[2].queue = workerObjs[2].queueName
  /\ taskObjs[1].queue = workerObjs[1].queueName
  /\ Len(addCalls) = 0
  /\ workerObjs[1].status = "closed" /\ workerObjs[2].status = "closed"

\* C37: a start() issued (by a trigger) while stop() is closing consumers
\* of the started engine returns without creating a consumer; once the
\* stop() completes the engine is idle with no live consumer, and while it
\* stays idle no job is delivered, so the job just enqueued stays pending
\* until a later start().
C37_StartDuringStop ==
  /\ []((Stopping /\ isStarted) =>
          /\ ~start(Proc).threw
          /\ start(Proc).p = Proc)
  /\ [][/\ (Len(addCalls') > Len(addCalls) /\ Stopping /\ isStarted) =>
            UNCHANGED <<workers, workerObjs, isStarted, redis>>
        /\ StopCompletes =>
            /\ ~isStarted'
            /\ \A q \in QueueNames : LiveConsumers(q)' = {}
        /\ (~isStarted /\ ~Stopping) =>
            \A j \in 1..Len(jobs) : jobs'[j].state = jobs[j].state]_vars

\* trigger() was called during the stop(); the stop() has completed, the
\* engine is idle with its consumers closed, and the job waits.
C37_Witness ==
  /\ Len(stopCalls) = 1 /\ stopCalls[1].pc = "done"
  /\ ~isStarted
  /\ Len(workerObjs) > 0
  /\ \A w \in 1..Len(workerObjs) : workerObjs[w].status = "closed"
  /\ Len(addCalls) = 1 /\ addCalls[1].status = "resolved"
  /\ Len(jobs) = 1 /\ jobs[1].state = "waiting"

\* C38: the handler of a delivered job is chosen by the job's name alone.
\* A job named X that is delivered on a queue other than the one X is
\* registered on now (X was re-registered onto another queue while the job
\* was pending) has the current handler of X invoked with its payload.
OnOldQueue(j) ==
  /\ MapHas(taskQueues, jobs[j].name)
  /\ taskQueues[MapIndex(taskQueues, jobs[j].name)].v # jobs[j].queue

C38_HandlerByNameOnly ==
  [][\A j \in 1..Len(jobs) :
       (Delivered(j) /\ OnOldQueue(j)) =>
         /\ jobs'[j].state = "active"
         /\ jobs'[j].log = Append(jobs[j].log,
              Event("run", taskHandlers[MapIndex(taskHandlers, jobs[j].name)].v,
                    jobs[j].data, "none"))
         /\ taskHandlers[MapIndex(taskHandlers, jobs[j].name)].v =
              RunOf(LatestDecl(jobs[j].name))]_vars

\* A job triggered through the first declaration of X was delivered by the
\* consumer of X's first queue after X had been declared again on another
\* queue: the handler of the second declaration ran it.
C38_Witness ==
  \E j \in 1..Len(jobs) :
    /\ Len(taskObjs) = 2
    /\ taskObjs[1].id = taskObjs[2].id
    /\ taskObjs[1].queue # taskObjs[2].queue
    /\ jobs[j].name = taskObjs[1].id
    /\ jobs[j].queue = taskObjs[1].queue
    /\ jobs[j].worker # 0
    /\ workerObjs[jobs[j].worker].queueName = taskObjs[1].queue
    /\ jobs[j].log # <<>>
    /\ jobs[j].log[1].ev = "run" /\ jobs[j].log[1].fn = RunOf(2)

\* C39: the onError registered for task X is invoked only in response to a
\* failed job named X.  Every onError invocation in the history of a job is
\* of a callback declared with the job's name, follows the failure of that
\* job and gets its payload; a job that completed, or whose name has no
\* registered task, has none.
OnErrorCalls(j) == EventsOf(j, "onError")

C39_OnErrorOnlyForOwnFailure ==
  \A j \in 1..Len(jobs) :
    /\ \A n \in OnErrorCalls(j) :
         /\ \E k \in 1..Len(taskObjs) :
              /\ taskObjs[k].id = jobs[j].name
              /\ jobs[j].log[n].fn = OnErrorOf(k)
         /\ n > 1
         /\ jobs[j].log[n - 1].ev = "failed"
         /\ jobs[j].log[n].arg = jobs[j].data
         /\ jobs[j].state = "failed"
    /\ jobs[j].state # "failed" => OnErrorCalls(j) = {}
    /\ ~MapHas(taskHandlers, jobs[j].name) => OnErrorCalls(j) = {}

\* Two jobs failed on one queue: the one named by a task with an onError
\* had it invoked, the other, of another name, had no onError invoked.
C39_Witness ==
  \E j1, j2 \in 1..Len(jobs) :
    /\ jobs[j1].queue = jobs[j2].queue
    /\ jobs[j1].name # jobs[j2].name
    /\ jobs[j1].state = "failed" /\ jobs[j2].state = "failed"
    /\ OnErrorCalls(j1) # {}
    /\ OnErrorCalls(j2) = {}

\* C40: every live consumer is bound to the current shared connection
\* handle: no running Worker is bound to a handle that was reset and quit.
C40_ConsumersOnSharedHandle ==
  \A w \in 1..Len(workerObjs) :
    workerObjs[w].status = "running" =>
      /\ redisHandles[workerObjs[w].connection] = "open"
      /\ workerObjs[w].connection = sharedRedisConnection

=============================================================================
